---- MODULE Spec2Model ----
(***************************************************************************)
(* Daily-aggregate consistency engine of foodtopia.                        *)
(*                                                                         *)
(* Three storage backends keep a per-(user, day) DailyProgress row in step *)
(* with the meals and workouts that are stored:                            *)
(*   MemStorage        server/storage.ts, map backed, seeded on construct  *)
(*   DatabaseStorage   server/storage.ts, relational tables                *)
(*   client-local      client/src/services/localStorage.ts                 *)
(*                                                                         *)
(* Spec drives the three backends in lockstep with the same sequence of    *)
(* calls (each call runs to completion before the next starts); SpecMeals, *)
(* SpecWorkouts and SpecStore are Spec with fewer kinds of call.           *)
(* SpecMemConc and SpecDbConc run calls of one backend concurrently, one   *)
(* step per stretch of code between two awaits.                            *)
(* SpecDialog is the form of the add-workout dialog under user edits;      *)
(* SpecPace applies the dialog's rowing pace functions to given arguments. *)
(*                                                                         *)
(* Numbers: calories, grams, minutes and meters are integers here; the     *)
(* fractional part of a real-valued column is not modelled.                *)
(* In the workout dialog a duration is counted in milliseconds (60000      *)
(* times durationMinutes), a split in milliseconds per 500 m; a text is a  *)
(* sequence of one-character strings. Floating-point rounding error is not *)
(* modelled.                                                               *)
(* Time: a Date counts half days; the calls carry 12:00 UTC of day 0 or    *)
(* 00:00 UTC of day 1, and the server's zone is UTC or UTC+12.             *)
(***************************************************************************)
EXTENDS Integers, Sequences, FiniteSets, TLC

VARIABLES
    tz,             \* server time zone, in half days east of UTC
    memMeals,       \* MemStorage.meals: id -> Meal
    memWorkouts,    \* MemStorage.workouts: id -> Workout
    memProgress,    \* MemStorage.dailyProgressRecords: key -> DailyProgress
    memMealId,      \* MemStorage.mealIdCounter
    memWorkoutId,   \* MemStorage.workoutIdCounter
    memProgressId,  \* MemStorage.dailyProgressIdCounter
    dbMeals,        \* table meals: id -> row
    dbWorkouts,     \* table workouts: id -> row
    dbProgress,     \* table daily_progress: id -> row
    dbMealSeq,      \* serial of meals.id
    dbWorkoutSeq,   \* serial of workouts.id
    dbProgressSeq,  \* serial of daily_progress.id
    apiData,        \* createLocalStorageAPI: the closure's `data`
    lsData,         \* localStorage['foodtopia_data'], NoSnapshot while nothing is stored
    handles,        \* what every create call returned on each backend, in call order
    lastOp,         \* the last call: its name and arguments
    memRet,         \* what the last call returned on MemStorage
    dbRet,          \* what the last call returned on DatabaseStorage
    lsRet,          \* what the last call returned on the client-local store
    opCount,        \* calls made so far
    calls,          \* in-flight calls of the concurrent specifications
    dialog,         \* AddWorkoutDialog: the form's values and what the user typed
    pace,           \* a call of a rowing pace function: its arguments and its result
    queries,        \* queryClient's cache: the queries the pages mounted
    sw              \* the service worker: its state, CacheStorage, last answer

memVars == <<memMeals, memWorkouts, memProgress, memMealId, memWorkoutId, memProgressId>>
dbVars == <<dbMeals, dbWorkouts, dbProgress, dbMealSeq, dbWorkoutSeq, dbProgressSeq>>
lsVars == <<apiData, lsData>>
retVars == <<memRet, dbRet, lsRet>>

vars == <<tz, memVars, dbVars, lsVars, handles, lastOp, retVars, opCount, calls, dialog, pace, queries, sw>>

-----------------------------------------------------------------------------
(* Bounds and inputs *)

MaxOps == 3

Users == {1, 2}
Dates == {1, 2}
Today == 1
TimeZones == {0, 1}

\* Payloads of createMeal (InsertMeal without userId and date).
MealA == [totalCalories |-> 300, totalProtein |-> 20,
          items |-> << [calories |-> 300, protein |-> 20, carbs |-> 40, sugar |-> 5] >>]
MealB == [totalCalories |-> 200, totalProtein |-> 10,
          items |-> << [calories |-> 120, protein |-> 6],
                       [calories |-> 80, protein |-> 4, carbs |-> 10, fat |-> 3] >>]
MealPayloads == {MealA, MealB}

\* Payloads of createWorkout (InsertWorkout without userId and date).
WorkoutRow == [durationMinutes |-> 30, caloriesBurned |-> 250, type |-> "rowing",
               details |-> [rowingMeters |-> 5000, rowingSplit |-> "3:00.00"]]
WorkoutRun == [durationMinutes |-> 25, caloriesBurned |-> 180, type |-> "cardio",
               details |-> [distance |-> 2, heartRate |-> 142]]
WorkoutPayloads == {WorkoutRow, WorkoutRun}

\* Payloads of createOrUpdateDailyProgress (InsertDailyProgress without userId and date).
ProgressPayloads == {[caloriesConsumed |-> 999, workoutMinutes |-> 60]}

-----------------------------------------------------------------------------
(* JavaScript values *)

\* NaN, the result of arithmetic on undefined; no counter of the model is negative.
NaN == -1

\* obj.field read as a number: undefined (an absent field) behaves as NaN in arithmetic.
Num(obj, f) == IF f \in DOMAIN obj THEN obj[f] ELSE NaN

JsAdd(a, b) == IF a = NaN \/ b = NaN THEN NaN ELSE a + b
JsSub(a, b) == IF a = NaN \/ b = NaN THEN NaN ELSE a - b

\* Math.max(0, x)
MathMax0(x) == IF x = NaN THEN NaN ELSE IF x > 0 THEN x ELSE 0

\* x || 0
OrZero(x) == IF x = NaN THEN 0 ELSE x

\* { ...a, ...b }
Spread(a, b) == [k \in DOMAIN a \cup DOMAIN b |-> IF k \in DOMAIN b THEN b[k] ELSE a[k]]

\* Map.set / Map.delete
MapSet(m, k, v) == [x \in DOMAIN m \cup {k} |-> IF x = k THEN v ELSE m[x]]
MapDelete(m, k) == [x \in DOMAIN m \ {k} |-> m[x]]

RECURSIVE SumSeq(_, _)
SumSeq(s, f) == IF s = <<>> THEN 0 ELSE JsAdd(OrZero(Num(Head(s), f)), SumSeq(Tail(s), f))

RECURSIVE SumSet(_, _)
SumSet(S, f) ==
    IF S = {} THEN 0
    ELSE LET x == CHOOSE y \in S : TRUE IN JsAdd(Num(x, f), SumSet(S \ {x}, f))

Max(S) == CHOOSE x \in S : \A y \in S : y <= x

\* What a call returns.
RetUndefined == [kind |-> "undefined"]
RetBool(b) == [kind |-> "boolean", val |-> b]
RetRecord(r) == [kind |-> "record", val |-> r]

-----------------------------------------------------------------------------
(* Day buckets *)

\* date.toISOString().split('T')[0]
IsoDay(date) == date \div 2

\* setHours(0, 0, 0, 0) .. setHours(23, 59, 59, 999): the server's local day
LocalDay(date) == (date + tz) \div 2

-----------------------------------------------------------------------------
(* MemStorage *)

\* `${userId}-${date.toISOString().split('T')[0]}`
MemKey(userId, date) == <<userId, IsoDay(date)>>

MemGetDailyProgress(userId, date) ==
    IF MemKey(userId, date) \in DOMAIN memProgress
    THEN RetRecord(memProgress[MemKey(userId, date)])
    ELSE RetUndefined

\* getMealsByDate / getWorkoutsByDate: the records of the user on that ISO day
MemGetByDate(map, userId, date) ==
    {map[id] : id \in {i \in DOMAIN map :
                          /\ map[i].userId = userId
                          /\ IsoDay(map[i].date) = IsoDay(date)}}

\* updateDailyProgressAfterMeal from its first await on: `read` is what
\* getDailyProgress returned before the await.
MemWriteProgressAfterMeal(meal, read) ==
    LET key == MemKey(meal.userId, meal.date) IN
    IF read.kind = "record"
    THEN /\ memProgress' = MapSet(memProgress, key, Spread(read.val,
                [caloriesConsumed |-> JsAdd(Num(read.val, "caloriesConsumed"), meal.totalCalories),
                 proteinConsumed |-> JsAdd(Num(read.val, "proteinConsumed"), meal.totalProtein)]))
         /\ UNCHANGED memProgressId
    ELSE /\ memProgress' = MapSet(memProgress, key,
                [id |-> memProgressId, userId |-> meal.userId, date |-> meal.date,
                 caloriesConsumed |-> meal.totalCalories,
                 proteinConsumed |-> meal.totalProtein,
                 carbsConsumed |-> 0, fatConsumed |-> 0, sugarConsumed |-> 0,
                 workoutMinutes |-> 0, caloriesBurned |-> 0])
         /\ memProgressId' = memProgressId + 1

MemUpdateDailyProgressAfterMeal(meal) ==
    MemWriteProgressAfterMeal(meal, MemGetDailyProgress(meal.userId, meal.date))

MemCreateMeal(insertMeal) ==
    LET meal == Spread(insertMeal, [id |-> memMealId]) IN
    /\ memMealId' = memMealId + 1
    /\ memMeals' = MapSet(memMeals, memMealId, meal)
    /\ MemUpdateDailyProgressAfterMeal(meal)
    /\ memRet' = RetRecord(meal)
    /\ UNCHANGED <<memWorkouts, memWorkoutId>>

MemDeleteMeal(id) ==
    IF id \notin DOMAIN memMeals
    THEN /\ memRet' = RetBool(FALSE)
         /\ UNCHANGED memVars
    ELSE LET meal == memMeals[id]
             read == MemGetDailyProgress(meal.userId, meal.date)
         IN  /\ memProgress' =
                    IF read.kind = "record"
                    THEN MapSet(memProgress, MemKey(meal.userId, meal.date), Spread(read.val,
                            [caloriesConsumed |->
                                 MathMax0(JsSub(Num(read.val, "caloriesConsumed"), meal.totalCalories)),
                             proteinConsumed |->
                                 MathMax0(JsSub(Num(read.val, "proteinConsumed"), meal.totalProtein))]))
                    ELSE memProgress
             /\ memMeals' = MapDelete(memMeals, id)
             /\ memRet' = RetBool(TRUE)
             /\ UNCHANGED <<memWorkouts, memMealId, memWorkoutId, memProgressId>>

\* rowingMeters as updateDailyProgressAfterWorkout extracts it
MemRowingMeters(workout) ==
    IF workout.type = "rowing" THEN OrZero(Num(workout.details, "rowingMeters")) ELSE 0

MemWriteProgressAfterWorkout(workout, read) ==
    LET key == MemKey(workout.userId, workout.date) IN
    IF read.kind = "record"
    THEN /\ memProgress' = MapSet(memProgress, key, Spread(read.val,
                [workoutMinutes |-> JsAdd(Num(read.val, "workoutMinutes"), workout.durationMinutes),
                 caloriesBurned |-> JsAdd(Num(read.val, "caloriesBurned"), workout.caloriesBurned),
                 rowingMeters |-> JsAdd(Num(read.val, "rowingMeters"), MemRowingMeters(workout))]))
         /\ UNCHANGED memProgressId
    ELSE /\ memProgress' = MapSet(memProgress, key,
                [id |-> memProgressId, userId |-> workout.userId, date |-> workout.date,
                 caloriesConsumed |-> 0, proteinConsumed |-> 0,
                 carbsConsumed |-> 0, fatConsumed |-> 0, sugarConsumed |-> 0,
                 workoutMinutes |-> workout.durationMinutes,
                 caloriesBurned |-> workout.caloriesBurned,
                 rowingMeters |-> MemRowingMeters(workout)])
         /\ memProgressId' = memProgressId + 1

MemUpdateDailyProgressAfterWorkout(workout) ==
    MemWriteProgressAfterWorkout(workout, MemGetDailyProgress(workout.userId, workout.date))

MemCreateWorkout(insertWorkout) ==
    LET workout == Spread(insertWorkout, [id |-> memWorkoutId]) IN
    /\ memWorkoutId' = memWorkoutId + 1
    /\ memWorkouts' = MapSet(memWorkouts, memWorkoutId, workout)
    /\ MemUpdateDailyProgressAfterWorkout(workout)
    /\ memRet' = RetRecord(workout)
    /\ UNCHANGED <<memMeals, memMealId>>

\* deleteWorkout without its `if (!workout) return false`
MemDeleteWorkoutUnguarded(id) ==
    /\ memWorkouts' = MapDelete(memWorkouts, id)
    /\ memRet' = RetBool(TRUE)
    /\ UNCHANGED <<memMeals, memProgress, memMealId, memWorkoutId, memProgressId>>

MemDeleteWorkout(id) ==
    IF id \notin DOMAIN memWorkouts
    THEN /\ memRet' = RetBool(FALSE)
         /\ UNCHANGED memVars
    ELSE LET workout == memWorkouts[id]
             read == MemGetDailyProgress(workout.userId, workout.date)
         IN  /\ memProgress' =
                    IF read.kind = "record"
                    THEN MapSet(memProgress, MemKey(workout.userId, workout.date), Spread(read.val,
                            [workoutMinutes |->
                                 MathMax0(JsSub(Num(read.val, "workoutMinutes"), workout.durationMinutes)),
                             caloriesBurned |->
                                 MathMax0(JsSub(Num(read.val, "caloriesBurned"), workout.caloriesBurned))]))
                    ELSE memProgress
             /\ memWorkouts' = MapDelete(memWorkouts, id)
             /\ memRet' = RetBool(TRUE)
             /\ UNCHANGED <<memMeals, memMealId, memWorkoutId, memProgressId>>

MemCreateOrUpdateDailyProgress(progress) ==
    LET key == MemKey(progress.userId, progress.date) IN
    /\ IF key \in DOMAIN memProgress
       THEN LET updatedProgress == Spread(memProgress[key], progress) IN
            /\ memProgress' = MapSet(memProgress, key, updatedProgress)
            /\ memRet' = RetRecord(updatedProgress)
            /\ UNCHANGED memProgressId
       ELSE LET newProgress == Spread(progress, [id |-> memProgressId]) IN
            /\ memProgress' = MapSet(memProgress, key, newProgress)
            /\ memRet' = RetRecord(newProgress)
            /\ memProgressId' = memProgressId + 1
    /\ UNCHANGED <<memMeals, memWorkouts, memMealId, memWorkoutId>>

\* The state MemStorage's constructor leaves (initializeSampleData): the demo
\* user's three meals, one workout and one DailyProgress row, all dated now.
SeedMeal(id, cal, prot, items) ==
    [id |-> id, userId |-> 1, date |-> Today, totalCalories |-> cal,
     totalProtein |-> prot, items |-> items]

MemSeedMeals ==
    (1 :> SeedMeal(1, 450, 20, << [calories |-> 250, protein |-> 15],
                                  [calories |-> 120, protein |-> 4],
                                  [calories |-> 80, protein |-> 1] >>))
    @@ (2 :> SeedMeal(2, 570, 35, << [calories |-> 420, protein |-> 30],
                                     [calories |-> 150, protein |-> 5],
                                     [calories |-> 0, protein |-> 0] >>))
    @@ (3 :> SeedMeal(3, 580, 42, << [calories |-> 350, protein |-> 35],
                                     [calories |-> 120, protein |-> 4],
                                     [calories |-> 110, protein |-> 3] >>))

MemSeedWorkouts ==
    (1 :> [id |-> 1, userId |-> 1, date |-> Today, caloriesBurned |-> 180,
           durationMinutes |-> 25, type |-> "cardio",
           details |-> [distance |-> 2, heartRate |-> 142]])

MemSeedProgress ==
    (MemKey(1, Today) :>
        [id |-> 1, userId |-> 1, date |-> Today, caloriesConsumed |-> 1450,
         proteinConsumed |-> 89, carbsConsumed |-> 185, fatConsumed |-> 48,
         sugarConsumed |-> 36, workoutMinutes |-> 25, caloriesBurned |-> 180])

MemInit ==
    /\ memMeals = MemSeedMeals
    /\ memWorkouts = MemSeedWorkouts
    /\ memProgress = MemSeedProgress
    /\ memMealId = 4
    /\ memWorkoutId = 2
    /\ memProgressId = 2


-----------------------------------------------------------------------------
(* DatabaseStorage *)

\* where userId = .. and date >= startOfDay and date <= endOfDay
DbSelectByDate(table, userId, date) ==
    {table[id] : id \in {i \in DOMAIN table :
                            /\ table[i].userId = userId
                            /\ LocalDay(table[i].date) = LocalDay(date)}}

\* getDailyProgress: `const [progress] = await db.select()...`, the first row of
\* a query without ORDER BY: any matching row, undefined when there is none.
DbGetDailyProgress(userId, date) ==
    IF DbSelectByDate(dbProgress, userId, date) = {}
    THEN {RetUndefined}
    ELSE {RetRecord(row) : row \in DbSelectByDate(dbProgress, userId, date)}

RECURSIVE DbSumItems(_, _)
DbSumItems(mealRows, f) ==
    IF mealRows = {} THEN 0
    ELSE LET m == CHOOSE y \in mealRows : TRUE
         IN  JsAdd(SumSeq(m.items, f), DbSumItems(mealRows \ {m}, f))

\* the totals both createMeal and deleteMeal re-derive from the day's meals
DbMealTotals(mealRows) ==
    [caloriesConsumed |-> SumSet(mealRows, "totalCalories"),
     proteinConsumed |-> SumSet(mealRows, "totalProtein"),
     carbsConsumed |-> DbSumItems(mealRows, "carbs"),
     fatConsumed |-> DbSumItems(mealRows, "fat"),
     sugarConsumed |-> DbSumItems(mealRows, "sugar")]

\* db.update(dailyProgress).set(fields).where(eq(dailyProgress.id, id))
DbUpdateProgress(id, fields) ==
    dbProgress' = [i \in DOMAIN dbProgress |->
                      IF i = id THEN Spread(dbProgress[i], fields) ELSE dbProgress[i]]

\* db.insert(dailyProgress).values(values): serial id, column defaults
DbInsertProgress(values) ==
    /\ dbProgress' = MapSet(dbProgress, dbProgressSeq,
                            Spread([rowingMeters |-> 0], Spread(values, [id |-> dbProgressSeq])))
    /\ dbProgressSeq' = dbProgressSeq + 1

\* updateDailyProgressAfterMeal after its reads: `read` is what getDailyProgress
\* returned, `dayMeals` what getMealsByDate returned.
DbWriteProgressAfterMeal(meal, read, dayMeals) ==
    IF read.kind = "record"
    THEN /\ DbUpdateProgress(read.val.id, DbMealTotals(dayMeals))
         /\ UNCHANGED dbProgressSeq
    ELSE DbInsertProgress(
            [userId |-> meal.userId, date |-> meal.date,
             caloriesConsumed |-> meal.totalCalories,
             proteinConsumed |-> meal.totalProtein,
             carbsConsumed |-> SumSeq(meal.items, "carbs"),
             fatConsumed |-> SumSeq(meal.items, "fat"),
             sugarConsumed |-> SumSeq(meal.items, "sugar"),
             workoutMinutes |-> 0, caloriesBurned |-> 0])

DbCreateMeal(insertMeal) ==
    LET newMeal == Spread(insertMeal, [id |-> dbMealSeq])
        inserted == MapSet(dbMeals, dbMealSeq, newMeal)
    IN  /\ dbMeals' = inserted
        /\ dbMealSeq' = dbMealSeq + 1
        /\ \E read \in DbGetDailyProgress(newMeal.userId, newMeal.date) :
              DbWriteProgressAfterMeal(newMeal, read,
                  DbSelectByDate(inserted, newMeal.userId, newMeal.date))
        /\ dbRet' = RetRecord(newMeal)
        /\ UNCHANGED <<dbWorkouts, dbWorkoutSeq>>

\* deleteMeal writing back the calorie and protein totals only
DbWriteProgressAfterMealDeletionTotalsOnly(read, dayMeals) ==
    IF read.kind = "record"
    THEN DbUpdateProgress(read.val.id,
             [caloriesConsumed |-> SumSet(dayMeals, "totalCalories"),
              proteinConsumed |-> SumSet(dayMeals, "totalProtein")])
    ELSE UNCHANGED dbProgress

\* deleteMeal after its reads
DbWriteProgressAfterMealDeletion(read, dayMeals) ==
    IF read.kind = "record"
    THEN DbUpdateProgress(read.val.id, DbMealTotals(dayMeals))
    ELSE UNCHANGED dbProgress

DbDeleteMeal(id) ==
    IF id \notin DOMAIN dbMeals
    THEN /\ dbRet' = RetBool(FALSE)
         /\ UNCHANGED dbVars
    ELSE LET meal == dbMeals[id]
             deleted == MapDelete(dbMeals, id)
         IN  /\ dbMeals' = deleted
             /\ \E read \in DbGetDailyProgress(meal.userId, meal.date) :
                   DbWriteProgressAfterMealDeletion(read,
                       DbSelectByDate(deleted, meal.userId, meal.date))
             /\ dbRet' = RetBool(TRUE)
             /\ UNCHANGED <<dbWorkouts, dbMealSeq, dbWorkoutSeq, dbProgressSeq>>

\* rowing meters of one workout as updateDailyProgressAfterWorkout counts them
DbRowingMeters(w) ==
    IF w.type = "rowing" THEN OrZero(Num(w.details, "rowingMeters")) ELSE 0

RECURSIVE DbSumRowingMeters(_)
DbSumRowingMeters(workoutRows) ==
    IF workoutRows = {} THEN 0
    ELSE LET w == CHOOSE y \in workoutRows : TRUE
         IN  DbRowingMeters(w) + DbSumRowingMeters(workoutRows \ {w})

DbWriteProgressAfterWorkout(workout, read, dayWorkouts) ==
    IF read.kind = "record"
    THEN /\ DbUpdateProgress(read.val.id,
                [workoutMinutes |-> SumSet(dayWorkouts, "durationMinutes"),
                 caloriesBurned |-> SumSet(dayWorkouts, "caloriesBurned"),
                 rowingMeters |-> DbSumRowingMeters(dayWorkouts)])
         /\ UNCHANGED dbProgressSeq
    ELSE DbInsertProgress(
            [userId |-> workout.userId, date |-> workout.date,
             caloriesConsumed |-> 0, proteinConsumed |-> 0,
             carbsConsumed |-> 0, fatConsumed |-> 0, sugarConsumed |-> 0,
             workoutMinutes |-> workout.durationMinutes,
             caloriesBurned |-> workout.caloriesBurned,
             rowingMeters |-> DbRowingMeters(workout)])

DbCreateWorkout(insertWorkout) ==
    LET newWorkout == Spread(insertWorkout, [id |-> dbWorkoutSeq])
        inserted == MapSet(dbWorkouts, dbWorkoutSeq, newWorkout)
    IN  /\ dbWorkouts' = inserted
        /\ dbWorkoutSeq' = dbWorkoutSeq + 1
        /\ \E read \in DbGetDailyProgress(newWorkout.userId, newWorkout.date) :
              DbWriteProgressAfterWorkout(newWorkout, read,
                  DbSelectByDate(inserted, newWorkout.userId, newWorkout.date))
        /\ dbRet' = RetRecord(newWorkout)
        /\ UNCHANGED <<dbMeals, dbMealSeq>>

DbWriteProgressAfterWorkoutDeletion(read, dayWorkouts) ==
    IF read.kind = "record"
    THEN DbUpdateProgress(read.val.id,
            [workoutMinutes |-> SumSet(dayWorkouts, "durationMinutes"),
             caloriesBurned |-> SumSet(dayWorkouts, "caloriesBurned")])
    ELSE UNCHANGED dbProgress

DbDeleteWorkout(id) ==
    IF id \notin DOMAIN dbWorkouts
    THEN /\ dbRet' = RetBool(FALSE)
         /\ UNCHANGED dbVars
    ELSE LET workout == dbWorkouts[id]
             deleted == MapDelete(dbWorkouts, id)
         IN  /\ dbWorkouts' = deleted
             /\ \E read \in DbGetDailyProgress(workout.userId, workout.date) :
                   DbWriteProgressAfterWorkoutDeletion(read,
                       DbSelectByDate(deleted, workout.userId, workout.date))
             /\ dbRet' = RetBool(TRUE)
             /\ UNCHANGED <<dbMeals, dbMealSeq, dbWorkoutSeq, dbProgressSeq>>

\* the counters an insert of createOrUpdateDailyProgress fills with `?? 0`
DbProgressDefaults ==
    [caloriesConsumed |-> 0, proteinConsumed |-> 0, carbsConsumed |-> 0,
     fatConsumed |-> 0, sugarConsumed |-> 0, workoutMinutes |-> 0, caloriesBurned |-> 0]

DbCreateOrUpdateDailyProgress(progress) ==
    /\ \E existing \in DbGetDailyProgress(progress.userId, progress.date) :
          IF existing.kind = "record"
          THEN /\ DbUpdateProgress(existing.val.id, progress)
               /\ dbRet' = RetRecord(Spread(existing.val, progress))
               /\ UNCHANGED dbProgressSeq
          ELSE /\ DbInsertProgress(Spread(DbProgressDefaults, progress))
               /\ dbRet' = RetRecord(dbProgress'[dbProgressSeq])
    /\ UNCHANGED <<dbMeals, dbWorkouts, dbMealSeq, dbWorkoutSeq>>

\* DatabaseStorage has no constructor: empty tables, serials at 1.
DbInit ==
    /\ dbMeals = <<>>
    /\ dbWorkouts = <<>>
    /\ dbProgress = <<>>
    /\ dbMealSeq = 1
    /\ dbWorkoutSeq = 1
    /\ dbProgressSeq = 1


-----------------------------------------------------------------------------
(* Client-local store: createLocalStorageAPI and the module's helpers *)

\* initialData, without the collections no call of the model touches
InitialData == [meals |-> <<>>, workouts |-> <<>>, dailyProgress |-> <<>>]

NoSnapshot == [stored |-> FALSE]

\* saveToStorage: localStorage.setItem(STORAGE_KEY, JSON.stringify(data))
Snapshot(data) == [stored |-> TRUE, data |-> data]

Ids(collection) == {collection[i].id : i \in 1..Len(collection)}

\* getNewId
GetNewId(collection) == IF Len(collection) > 0 THEN Max(Ids(collection)) + 1 ELSE 1

\* The least element of a set of indexes, 0 for the empty set: what
\* Array.prototype.findIndex finds (1-based here), 0 when nothing matches.
First(indexes) ==
    IF indexes = {} THEN 0 ELSE CHOOSE i \in indexes : \A j \in indexes : i <= j

\* collection.findIndex(item => item.id === id)
FindIndexById(collection, id) ==
    First({i \in 1..Len(collection) : collection[i].id = id})

\* Array.prototype.splice(index, 1)
Splice(collection, index) ==
    [i \in 1..(Len(collection) - 1) |->
        IF i < index THEN collection[i] ELSE collection[i + 1]]

\* existingProgress = data.dailyProgress.find(...) is changed in place, then
\* stored again at the index of the first row with its id.
LsReplaceProgress(dailyProgress, found, row) ==
    LET changed == [dailyProgress EXCEPT ![found] = row]
        index == FindIndexById(changed, row.id)
    IN  [changed EXCEPT ![index] = row]

\* dailyProgress.find(p => p.userId === userId && same ISO day)
LsFindProgress(dailyProgress, userId, date) ==
    First({i \in 1..Len(dailyProgress) :
              /\ dailyProgress[i].userId = userId
              /\ IsoDay(dailyProgress[i].date) = IsoDay(date)})

LsNewProgressId(dailyProgress) == Max(Ids(dailyProgress) \cup {0}) + 1

\* updateDailyProgressAfterMeal, on the dailyProgress array it loaded
LsProgressAfterMeal(dailyProgress, meal) ==
    LET found == LsFindProgress(dailyProgress, meal.userId, meal.date) IN
    IF found > 0
    THEN LsReplaceProgress(dailyProgress, found, Spread(dailyProgress[found],
            [caloriesConsumed |->
                 JsAdd(OrZero(Num(dailyProgress[found], "caloriesConsumed")), meal.totalCalories),
             proteinConsumed |->
                 JsAdd(OrZero(Num(dailyProgress[found], "proteinConsumed")), meal.totalProtein)]))
    ELSE Append(dailyProgress,
            [id |-> LsNewProgressId(dailyProgress), userId |-> meal.userId, date |-> meal.date,
             caloriesConsumed |-> meal.totalCalories, proteinConsumed |-> meal.totalProtein,
             caloriesBurned |-> 0, carbsConsumed |-> 0, fatConsumed |-> 0,
             sugarConsumed |-> 0, workoutMinutes |-> 0, rowingMeters |-> 0])

\* updateDailyProgressAfterMealDeletion
LsProgressAfterMealDeletion(dailyProgress, meal) ==
    LET found == LsFindProgress(dailyProgress, meal.userId, meal.date) IN
    IF found > 0
    THEN LsReplaceProgress(dailyProgress, found, Spread(dailyProgress[found],
            [caloriesConsumed |-> MathMax0(
                 JsSub(OrZero(Num(dailyProgress[found], "caloriesConsumed")), meal.totalCalories)),
             proteinConsumed |-> MathMax0(
                 JsSub(OrZero(Num(dailyProgress[found], "proteinConsumed")), meal.totalProtein))]))
    ELSE dailyProgress

\* workoutDetails?.rowingMeters || 0
LsRowingMeters(workout) == OrZero(Num(workout.details, "rowingMeters"))

\* updateDailyProgressAfterWorkout
LsProgressAfterWorkout(dailyProgress, workout) ==
    LET found == LsFindProgress(dailyProgress, workout.userId, workout.date)
        caloriesBurned == OrZero(workout.caloriesBurned)
        workoutMinutes == OrZero(workout.durationMinutes)
    IN
    IF found > 0
    THEN LsReplaceProgress(dailyProgress, found, Spread(dailyProgress[found],
            [caloriesBurned |->
                 JsAdd(OrZero(Num(dailyProgress[found], "caloriesBurned")), caloriesBurned),
             workoutMinutes |->
                 JsAdd(OrZero(Num(dailyProgress[found], "workoutMinutes")), workoutMinutes),
             rowingMeters |->
                 JsAdd(OrZero(Num(dailyProgress[found], "rowingMeters")), LsRowingMeters(workout))]))
    ELSE Append(dailyProgress,
            [id |-> LsNewProgressId(dailyProgress), userId |-> workout.userId,
             date |-> workout.date, caloriesConsumed |-> 0, proteinConsumed |-> 0,
             caloriesBurned |-> caloriesBurned, carbsConsumed |-> 0, fatConsumed |-> 0,
             sugarConsumed |-> 0, workoutMinutes |-> workoutMinutes,
             rowingMeters |-> LsRowingMeters(workout)])

\* updateDailyProgressAfterWorkoutDeletion
LsProgressAfterWorkoutDeletion(dailyProgress, workout) ==
    LET found == LsFindProgress(dailyProgress, workout.userId, workout.date) IN
    IF found > 0
    THEN LsReplaceProgress(dailyProgress, found, Spread(dailyProgress[found],
            [caloriesBurned |-> MathMax0(JsSub(
                 OrZero(Num(dailyProgress[found], "caloriesBurned")), OrZero(workout.caloriesBurned))),
             workoutMinutes |-> MathMax0(JsSub(
                 OrZero(Num(dailyProgress[found], "workoutMinutes")), OrZero(workout.durationMinutes))),
             rowingMeters |-> MathMax0(JsSub(
                 OrZero(Num(dailyProgress[found], "rowingMeters")), LsRowingMeters(workout)))]))
    ELSE dailyProgress

\* loadFromStorage as a helper calls it while the closure's data is `closure`:
\* the parsed snapshot, a copy, or - while nothing is stored - initialData
\* itself, which is the object the closure holds (the API was created on an
\* empty localStorage).
LoadFromStorage(closure) == IF lsData.stored THEN lsData.data ELSE closure

\* The end of a mutating call: the helper has saved `helped`, the data it
\* loaded and changed, and saveData now saves the closure's data, which shows
\* the helper's change only when the helper worked on initialData itself.
LsSaveData(changed, helped) ==
    LET closure == IF lsData.stored THEN changed ELSE helped IN
    /\ apiData' = closure
    /\ lsData' = Snapshot(closure)

LsCreateMeal(meal) ==
    LET newMeal == Spread(meal, [id |-> GetNewId(apiData.meals)])
        changed == [apiData EXCEPT !.meals = Append(@, newMeal)]
        loaded == LoadFromStorage(changed)
    IN  /\ LsSaveData(changed,
              [loaded EXCEPT !.dailyProgress = LsProgressAfterMeal(@, newMeal)])
        /\ lsRet' = RetRecord(newMeal)

LsDeleteMeal(id) ==
    LET mealIndex == FindIndexById(apiData.meals, id) IN
    IF mealIndex > 0
    THEN LET meal == apiData.meals[mealIndex]
             changed == [apiData EXCEPT !.meals = Splice(@, mealIndex)]
             loaded == LoadFromStorage(changed)
         IN  /\ LsSaveData(changed,
                   [loaded EXCEPT !.dailyProgress = LsProgressAfterMealDeletion(@, meal)])
             /\ lsRet' = RetBool(TRUE)
    ELSE /\ lsRet' = RetBool(FALSE)
         /\ UNCHANGED lsVars

LsCreateWorkout(workout) ==
    LET newWorkout == Spread(workout, [id |-> GetNewId(apiData.workouts)])
        changed == [apiData EXCEPT !.workouts = Append(@, newWorkout)]
        loaded == LoadFromStorage(changed)
    IN  /\ LsSaveData(changed,
              [loaded EXCEPT !.dailyProgress = LsProgressAfterWorkout(@, newWorkout)])
        /\ lsRet' = RetRecord(newWorkout)

LsDeleteWorkout(id) ==
    LET workoutIndex == FindIndexById(apiData.workouts, id) IN
    IF workoutIndex > 0
    THEN LET workout == apiData.workouts[workoutIndex]
             changed == [apiData EXCEPT !.workouts = Splice(@, workoutIndex)]
             loaded == LoadFromStorage(changed)
         IN  /\ LsSaveData(changed,
                   [loaded EXCEPT !.dailyProgress = LsProgressAfterWorkoutDeletion(@, workout)])
             /\ lsRet' = RetBool(TRUE)
    ELSE /\ lsRet' = RetBool(FALSE)
         /\ UNCHANGED lsVars

\* getMealsByDate / getWorkoutsByDate: filter on userId and isSameDay
LsGetByDate(collection, userId, date) ==
    {collection[i] : i \in {j \in 1..Len(collection) :
                                /\ collection[j].userId = userId
                                /\ IsoDay(collection[j].date) = IsoDay(date)}}

LsGetDailyProgress(userId, date) ==
    LET found == LsFindProgress(apiData.dailyProgress, userId, date) IN
    IF found > 0 THEN RetRecord(apiData.dailyProgress[found]) ELSE RetUndefined

LsCreateOrUpdateDailyProgress(progress) ==
    LET existingIndex == LsFindProgress(apiData.dailyProgress, progress.userId, progress.date) IN
    IF existingIndex > 0
    THEN LET updatedProgress == Spread(apiData.dailyProgress[existingIndex], progress) IN
         /\ apiData' = [apiData EXCEPT !.dailyProgress[existingIndex] = updatedProgress]
         /\ lsData' = Snapshot(apiData')
         /\ lsRet' = RetRecord(updatedProgress)
    ELSE LET newProgress == Spread(progress, [id |-> GetNewId(apiData.dailyProgress)]) IN
         /\ apiData' = [apiData EXCEPT !.dailyProgress = Append(@, newProgress)]
         /\ lsData' = Snapshot(apiData')
         /\ lsRet' = RetRecord(newProgress)

\* createLocalStorageAPI() on a browser that has stored nothing yet
LsInit ==
    /\ apiData = InitialData
    /\ lsData = NoSnapshot


-----------------------------------------------------------------------------
(* add-workout-dialog.tsx: the rowing pace functions *)

\* A text is written one character per element.
Digit ==
    ("0" :> 0) @@ ("1" :> 1) @@ ("2" :> 2) @@ ("3" :> 3) @@ ("4" :> 4) @@
    ("5" :> 5) @@ ("6" :> 6) @@ ("7" :> 7) @@ ("8" :> 8) @@ ("9" :> 9)

\* `${n}` of an integer n >= 0
RECURSIVE NatToString(_)
NatToString(n) ==
    LET last == CHOOSE c \in DOMAIN Digit : Digit[c] = n % 10 IN
    IF n < 10 THEN <<last>> ELSE Append(NatToString(n \div 10), last)

\* String.prototype.split(separator)
RECURSIVE StringSplit(_, _)
StringSplit(str, separator) ==
    LET at == First({i \in 1..Len(str) : str[i] = separator}) IN
    IF at = 0 THEN <<str>>
    ELSE <<SubSeq(str, 1, at - 1)>> \o StringSplit(SubSeq(str, at + 1, Len(str)), separator)

\* parseFloat(str) of a text without sign, point or exponent: the number its
\* leading digits spell, NaN when it does not start with a digit
RECURSIVE ParseFloat(_)
ParseFloat(str) ==
    IF str = <<>> \/ str[1] \notin DOMAIN Digit THEN NaN
    ELSE LET n == Max({k \in 1..Len(str) : \A i \in 1..k : str[i] \in DOMAIN Digit}) IN
         IF n = 1 THEN Digit[str[1]]
         ELSE 10 * ParseFloat(SubSeq(str, 1, n - 1)) + Digit[str[n]]

\* splitToSeconds, in milliseconds. parseFloat('0.' + fraction) is read off the
\* first three characters of a fraction made of digits.
SplitToSeconds(splitTime) ==
    IF splitTime = <<>> THEN 0
    ELSE LET parts == StringSplit(splitTime, ":") IN
         IF Len(parts) # 2 THEN 0
         ELSE LET minutes == ParseFloat(parts[1])
                  secondsPart == StringSplit(parts[2], ".")
                  seconds == ParseFloat(secondsPart[1])
                  milliseconds ==
                      IF Len(secondsPart) > 1
                      THEN ParseFloat(SubSeq(secondsPart[2] \o <<"0", "0", "0">>, 1, 3))
                      ELSE 0
              IN  IF minutes = NaN \/ seconds = NaN THEN NaN
                  ELSE minutes * 60000 + seconds * 1000 + milliseconds

\* secondsToSplit of num / den seconds (den > 0); fixed is
\* remainingSeconds.toFixed(2) in hundredths
SecondsToSplit(num, den) ==
    IF num <= 0 THEN <<>>
    ELSE LET minutes == num \div (60 * den)
             remainingSeconds == num % (60 * den)
             fixed == (100 * remainingSeconds + den \div 2) \div den
         IN  NatToString(minutes) \o <<":">>
                 \o (IF remainingSeconds < 10 * den THEN <<"0">> ELSE <<>>)
                 \o NatToString(fixed \div 100) \o <<".">>
                 \o NatToString((fixed \div 10) % 10) \o NatToString(fixed % 10)

\* calculateSplitFromPace: totalSeconds / distanceMeters * 500 is
\* duration / (2 * distanceMeters) with the duration in milliseconds
CalculateSplitFromPace(distanceMeters, duration) ==
    IF distanceMeters <= 0 \/ duration <= 0 THEN <<>>
    ELSE SecondsToSplit(duration, 2 * distanceMeters)

\* calculateDistanceFromPace; the last line is Math.round of
\* totalSeconds / splitSeconds * 500
CalculateDistanceFromPace(splitTime, duration) ==
    IF splitTime = <<>> \/ duration <= 0 THEN 0
    ELSE LET splitSeconds == SplitToSeconds(splitTime) IN
         IF splitSeconds = NaN THEN NaN
         ELSE IF splitSeconds <= 0 THEN 0
         ELSE (500 * duration + splitSeconds \div 2) \div splitSeconds

-----------------------------------------------------------------------------
(* add-workout-dialog.tsx: the form of AddWorkoutDialog *)

\* The form after useForm: rowingMeters 0 and rowingSplit <<>> stand for the
\* undefined defaults and for an emptied input. effect says that a watched
\* value changed and the rowing effect has not run yet. edited, typedMeters and
\* typedSplit remember the rowing input the user changed last, entered the
\* parts the duration was last put together from, runs how often the effect
\* ran since the user's last edit.
DialogDefault ==
    [ type |-> "cardio", durationMinutes |-> 30 * 60000,
      rowingMeters |-> 0, rowingSplit |-> <<>>,
      dirtyMeters |-> FALSE, dirtySplit |-> FALSE, effect |-> FALSE,
      edited |-> "none", typedMeters |-> 0, typedSplit |-> <<>>,
      entered |-> [minutes |-> 30, seconds |-> 0, milliseconds |-> 0],
      edits |-> 0, runs |-> 0 ]

MaxEdits == 4

\* What the three duration inputs (and formatDuration) read back from a value:
\* Math.floor(value), Math.round((value % 1) * 60),
\* Math.round(((value % 1) * 60 % 1) * 1000)
DecomposeDuration(duration) ==
    [ minutes |-> duration \div 60000,
      seconds |-> ((duration % 60000) + 500) \div 1000,
      milliseconds |-> (duration % 60000) % 1000 ]

\* minutes + seconds / 60 + ms / 60000
ComposeDuration(minutes, seconds, ms) == minutes * 60000 + seconds * 1000 + ms

\* A user event: react-hook-form stores the value and re-renders; the effect
\* is due when a watched value changed.
UserEdit(form) ==
    /\ ~dialog.effect
    /\ dialog.edits < MaxEdits
    /\ dialog' = [form EXCEPT
            !.edits = dialog.edits + 1,
            !.runs = 0,
            !.effect = \/ form.type # dialog.type
                       \/ form.durationMinutes # dialog.durationMinutes
                       \/ form.rowingMeters # dialog.rowingMeters
                       \/ form.rowingSplit # dialog.rowingSplit]
    /\ UNCHANGED <<tz, memVars, dbVars, lsVars, handles, lastOp, retVars, opCount, calls, pace, queries, sw>>

\* The rowing auto-calculation of the useEffect. A number is truthy unless it
\* is 0 or NaN, a text unless it is empty.
RowingEffect(form) ==
    LET meters == form.rowingMeters # 0 /\ form.rowingMeters # NaN
        split == form.rowingSplit # <<>>
        duration == form.durationMinutes # 0
    IN  IF form.type # "rowing" THEN form
        ELSE IF meters /\ duration /\ (~split \/ form.dirtyMeters)
             THEN [form EXCEPT
                      !.rowingSplit = CalculateSplitFromPace(form.rowingMeters, form.durationMinutes),
                      !.dirtySplit = TRUE]
        ELSE IF split /\ duration /\ (~meters \/ form.dirtySplit)
             THEN [form EXCEPT
                      !.rowingMeters = CalculateDistanceFromPace(form.rowingSplit, form.durationMinutes),
                      !.dirtyMeters = TRUE]
        ELSE form

-----------------------------------------------------------------------------
(* The request layer: GET /api/daily-progress and the static query function *)

\* new Date('YYYY-MM-DD'): midnight UTC of that day
DateOfDay(day) == 2 * day

Days == {IsoDay(d) : d \in Dates}

\* routes.ts: the response when storage.getDailyProgress returned `progress`
RouteDailyProgress(userId, date, progress) ==
    IF progress.kind = "undefined"
    THEN RetRecord([userId |-> userId, date |-> date,
                    caloriesConsumed |-> 0, proteinConsumed |-> 0, carbsConsumed |-> 0,
                    fatConsumed |-> 0, sugarConsumed |-> 0,
                    workoutMinutes |-> 0, caloriesBurned |-> 0])
    ELSE progress

\* queryClient.ts getQueryFn, static branch: `const userId = 1`, and the result
\* of localStorageAPI.getDailyProgress is returned as it is
StaticDailyProgress(date) == LsGetDailyProgress(1, date)

-----------------------------------------------------------------------------
(* Spec: the same calls on the three backends, one call at a time *)

NoCalls == <<>>

\* The ids MemStorage's seed took have no counterpart in the other backends:
\* id 0 is never assigned there.
SeedHandles ==
    << [kind |-> "meal", mem |-> 1, db |-> 0, ls |-> 0],
       [kind |-> "meal", mem |-> 2, db |-> 0, ls |-> 0],
       [kind |-> "meal", mem |-> 3, db |-> 0, ls |-> 0],
       [kind |-> "workout", mem |-> 1, db |-> 0, ls |-> 0] >>

\* The backends after construction, before any call.
InitStore ==
    /\ MemInit
    /\ DbInit
    /\ LsInit
    /\ handles = SeedHandles
    /\ lastOp = [name |-> "new"]
    /\ memRet = RetUndefined
    /\ dbRet = RetUndefined
    /\ lsRet = RetUndefined
    /\ opCount = 0
    /\ calls = NoCalls

Init ==
    /\ tz \in TimeZones
    /\ InitStore
    /\ dialog = DialogDefault
    /\ pace = [fn |-> "none"]
    /\ queries = {}
    /\ sw = [state |-> "parsed", caches |-> {}, answered |-> [from |-> "none"]]

Called(op) ==
    /\ opCount < MaxOps
    /\ opCount' = opCount + 1
    /\ lastOp' = op
    /\ UNCHANGED <<tz, calls, dialog, pace, queries, sw>>

Created(kind) ==
    handles' = Append(handles, [kind |-> kind, mem |-> memRet'.val.id,
                                db |-> dbRet'.val.id, ls |-> lsRet'.val.id])

CreateMeal(userId, date, payload) ==
    LET insertMeal == Spread(payload, [userId |-> userId, date |-> date]) IN
    /\ Called([name |-> "createMeal", arg |-> insertMeal])
    /\ MemCreateMeal(insertMeal)
    /\ DbCreateMeal(insertMeal)
    /\ LsCreateMeal(insertMeal)
    /\ Created("meal")

DeleteMeal(h) ==
    /\ handles[h].kind = "meal"
    /\ Called([name |-> "deleteMeal", arg |-> handles[h]])
    /\ MemDeleteMeal(handles[h].mem)
    /\ DbDeleteMeal(handles[h].db)
    /\ LsDeleteMeal(handles[h].ls)
    /\ UNCHANGED handles

CreateWorkout(userId, date, payload) ==
    LET insertWorkout == Spread(payload, [userId |-> userId, date |-> date]) IN
    /\ Called([name |-> "createWorkout", arg |-> insertWorkout])
    /\ MemCreateWorkout(insertWorkout)
    /\ DbCreateWorkout(insertWorkout)
    /\ LsCreateWorkout(insertWorkout)
    /\ Created("workout")

DeleteWorkout(h) ==
    /\ handles[h].kind = "workout"
    /\ Called([name |-> "deleteWorkout", arg |-> handles[h]])
    /\ MemDeleteWorkout(handles[h].mem)
    /\ DbDeleteWorkout(handles[h].db)
    /\ LsDeleteWorkout(handles[h].ls)
    /\ UNCHANGED handles

\* GET /api/daily-progress?userId=..&date=YYYY-MM-DD, as each backend serves it
ServeDailyProgress(userId, day) ==
    /\ Called([name |-> "GET /api/daily-progress",
               arg |-> [userId |-> userId, date |-> DateOfDay(day)]])
    /\ memRet' = RouteDailyProgress(userId, DateOfDay(day),
                                    MemGetDailyProgress(userId, DateOfDay(day)))
    /\ \E progress \in DbGetDailyProgress(userId, DateOfDay(day)) :
          dbRet' = RouteDailyProgress(userId, DateOfDay(day), progress)
    /\ lsRet' = StaticDailyProgress(DateOfDay(day))
    /\ UNCHANGED <<memVars, dbVars, lsVars, handles>>

\* POST /api/daily-progress: storage.createOrUpdateDailyProgress(progressData)
PostDailyProgress(userId, date, payload) ==
    LET progress == Spread(payload, [userId |-> userId, date |-> date]) IN
    /\ Called([name |-> "createOrUpdateDailyProgress", arg |-> progress])
    /\ MemCreateOrUpdateDailyProgress(progress)
    /\ DbCreateOrUpdateDailyProgress(progress)
    /\ LsCreateOrUpdateDailyProgress(progress)
    /\ UNCHANGED handles

Next ==
    \/ \E u \in Users, d \in Dates, p \in MealPayloads : CreateMeal(u, d, p)
    \/ \E h \in DOMAIN handles : DeleteMeal(h)
    \/ \E u \in Users, d \in Dates, p \in WorkoutPayloads : CreateWorkout(u, d, p)
    \/ \E h \in DOMAIN handles : DeleteWorkout(h)
    \/ \E u \in Users, d \in Days : ServeDailyProgress(u, d)
    \/ \E u \in Users, d \in Dates, p \in ProgressPayloads : PostDailyProgress(u, d, p)

Spec == Init /\ [][Next]_vars


\* Only createMeal and deleteMeal calls.
NextMeals ==
    \/ \E u \in Users, d \in Dates, p \in MealPayloads : CreateMeal(u, d, p)
    \/ \E h \in DOMAIN handles : DeleteMeal(h)

SpecMeals == Init /\ [][NextMeals]_vars

\* Only createWorkout and deleteWorkout calls.
NextWorkouts ==
    \/ \E u \in Users, d \in Dates, p \in WorkoutPayloads : CreateWorkout(u, d, p)
    \/ \E h \in DOMAIN handles : DeleteWorkout(h)

SpecWorkouts == Init /\ [][NextWorkouts]_vars

\* The calls every backend offers under the same name: the four writes and the read.
NextStore ==
    \/ \E u \in Users, d \in Dates, p \in MealPayloads : CreateMeal(u, d, p)
    \/ \E h \in DOMAIN handles : DeleteMeal(h)
    \/ \E u \in Users, d \in Dates, p \in WorkoutPayloads : CreateWorkout(u, d, p)
    \/ \E h \in DOMAIN handles : DeleteWorkout(h)
    \/ \E u \in Users, d \in Days : ServeDailyProgress(u, d)

SpecStore == Init /\ [][NextStore]_vars

-----------------------------------------------------------------------------
(* SpecAnyPayload: the four writes with every payload the routes and the *)
(* client-local store accept                                             *)

\* Payloads a caller other than the dialogs can send: a meal whose totals are
\* not the sums of its items, a rowing workout whose meters are not a number.
MealUnsummed == [totalCalories |-> 500, totalProtein |-> 50,
                 items |-> << [calories |-> 100, protein |-> 5] >>]
WorkoutRowNaN == [durationMinutes |-> 20, caloriesBurned |-> 100, type |-> "rowing",
                  details |-> [rowingMeters |-> NaN]]
\* A workout that is not a rowing workout and carries rowing meters.
WorkoutRunMeters == [durationMinutes |-> 40, caloriesBurned |-> 300, type |-> "cardio",
                     details |-> [distance |-> 5, rowingMeters |-> 3000]]

NextAnyPayload ==
    \/ \E u \in Users, d \in Dates, p \in MealPayloads \cup {MealUnsummed} : CreateMeal(u, d, p)
    \/ \E h \in DOMAIN handles : DeleteMeal(h)
    \/ \E u \in Users, d \in Dates, p \in WorkoutPayloads \cup {WorkoutRowNaN, WorkoutRunMeters} :
          CreateWorkout(u, d, p)
    \/ \E h \in DOMAIN handles : DeleteWorkout(h)

SpecAnyPayload == Init /\ [][NextAnyPayload]_vars

-----------------------------------------------------------------------------
(* SpecProgress: createOrUpdateDailyProgress and the read of a row *)

\* storage.createOrUpdateDailyProgress(progress) of the server's two backends
\* with a progress that carries no date (InsertDailyProgress leaves it
\* optional); now is what new Date() returns. MemStorage reads
\* progress.date || new Date() into a local; DatabaseStorage assigns
\* progress.date = new Date(). payload is the caller's object after the call.
CreateOrUpdateDailyProgressUndated(userId, now, payload) ==
    LET progress == Spread(payload, [userId |-> userId])
        dated == Spread(progress, [date |-> now])
    IN  /\ Called([name |-> "createOrUpdateDailyProgress", arg |-> progress,
                   payload |-> [mem |-> progress, db |-> dated]])
        /\ MemCreateOrUpdateDailyProgress(dated)
        /\ DbCreateOrUpdateDailyProgress(dated)
        /\ UNCHANGED <<lsVars, lsRet, handles>>

NextProgress ==
    \/ \E u \in Users, d \in Dates, p \in ProgressPayloads : PostDailyProgress(u, d, p)
    \/ \E u \in Users, now \in Dates, p \in ProgressPayloads :
          CreateOrUpdateDailyProgressUndated(u, now, p)
    \/ \E u \in Users, d \in Days : ServeDailyProgress(u, d)

SpecProgress == Init /\ [][NextProgress]_vars

-----------------------------------------------------------------------------
(* SpecMemConc: createMeal calls of MemStorage in flight at the same time *)

\* A call in flight: its operation, where it is suspended, its argument, what
\* getDailyProgress returned to it and the rows its select returned.
Call(op, pc, arg, read, rows) ==
    [op |-> op, pc |-> pc, arg |-> arg, read |-> read, rows |-> rows]

Returned == \A c \in DOMAIN calls : calls[c].pc = "returned"

\* Suspended calls resume in the order they were suspended (the microtask queue).
MemTurn(c, pc) ==
    /\ calls[c].pc = pc
    /\ \A k \in 1..(c - 1) : calls[k].pc # pc

ConcStep(op) ==
    /\ lastOp' = [name |-> op]
    /\ UNCHANGED <<tz, handles, dialog, pace, queries, sw>>

\* createMeal up to the await in updateDailyProgressAfterMeal: the id is
\* taken, the meal is stored and getDailyProgress has read the map.
MemStartCreateMeal(userId, date, payload) ==
    LET meal == Spread(payload, [userId |-> userId, date |-> date, id |-> memMealId]) IN
    /\ opCount < MaxOps
    /\ opCount' = opCount + 1
    /\ memMealId' = memMealId + 1
    /\ memMeals' = MapSet(memMeals, memMealId, meal)
    /\ calls' = Append(calls, Call("createMeal", "getDailyProgress", meal,
                                   MemGetDailyProgress(userId, date), {}))
    /\ ConcStep("createMeal")
    /\ UNCHANGED <<memWorkouts, memProgress, memWorkoutId, memProgressId,
                   dbVars, lsVars, retVars>>

\* updateDailyProgressAfterMeal from its await to its end
MemResumeUpdateAfterMeal(c) ==
    /\ MemTurn(c, "getDailyProgress")
    /\ MemWriteProgressAfterMeal(calls[c].arg, calls[c].read)
    /\ calls' = [calls EXCEPT ![c].pc = "updateDailyProgressAfterMeal"]
    /\ ConcStep("updateDailyProgressAfterMeal")
    /\ UNCHANGED <<memMeals, memWorkouts, memMealId, memWorkoutId,
                   dbVars, lsVars, retVars, opCount>>

\* createMeal from its await to `return meal`
MemReturnCreateMeal(c) ==
    /\ MemTurn(c, "updateDailyProgressAfterMeal")
    /\ memRet' = RetRecord(calls[c].arg)
    /\ calls' = [calls EXCEPT ![c].pc = "returned"]
    /\ ConcStep("return")
    /\ UNCHANGED <<memVars, dbVars, lsVars, dbRet, lsRet, opCount>>

NextMemConc ==
    \/ \E u \in Users, d \in Dates, p \in MealPayloads : MemStartCreateMeal(u, d, p)
    \/ \E c \in DOMAIN calls : MemResumeUpdateAfterMeal(c)
    \/ \E c \in DOMAIN calls : MemReturnCreateMeal(c)

SpecMemConc == Init /\ [][NextMemConc]_vars

-----------------------------------------------------------------------------
(* SpecDbConc: calls of DatabaseStorage in flight at the same time, one step *)
(* per statement the database runs                                          *)

MaxInFlight == 2

InFlight == {c \in DOMAIN calls : calls[c].pc # "returned"}

DbStart(call) ==
    /\ opCount < MaxOps
    /\ Cardinality(InFlight) < MaxInFlight
    /\ opCount' = opCount + 1
    /\ calls' = Append(calls, call)
    /\ ConcStep(call.op)
    /\ UNCHANGED <<memVars, lsVars, memRet, lsRet>>

DbResume(c, op, pc, resumed) ==
    /\ calls[c].op = op
    /\ calls[c].pc = pc
    /\ calls' = [calls EXCEPT ![c] = resumed]
    /\ ConcStep(op)
    /\ UNCHANGED <<memVars, lsVars, memRet, lsRet, opCount>>

\* createMeal: db.insert(meals).values(..).returning()
DbStartCreateMeal(userId, date, payload) ==
    LET newMeal == Spread(payload, [userId |-> userId, date |-> date, id |-> dbMealSeq]) IN
    /\ DbStart(Call("createMeal", "getDailyProgress", newMeal, RetUndefined, {}))
    /\ dbMeals' = MapSet(dbMeals, dbMealSeq, newMeal)
    /\ dbMealSeq' = dbMealSeq + 1
    /\ UNCHANGED <<dbWorkouts, dbProgress, dbWorkoutSeq, dbProgressSeq, dbRet>>

\* createWorkout: db.insert(workouts).values(..).returning()
DbStartCreateWorkout(userId, date, payload) ==
    LET newWorkout == Spread(payload, [userId |-> userId, date |-> date, id |-> dbWorkoutSeq]) IN
    /\ DbStart(Call("createWorkout", "getDailyProgress", newWorkout, RetUndefined, {}))
    /\ dbWorkouts' = MapSet(dbWorkouts, dbWorkoutSeq, newWorkout)
    /\ dbWorkoutSeq' = dbWorkoutSeq + 1
    /\ UNCHANGED <<dbMeals, dbProgress, dbMealSeq, dbProgressSeq, dbRet>>

\* updateDailyProgressAfterMeal / ..AfterWorkout: `await this.getDailyProgress(..)`
DbCreateGetDailyProgress(c) ==
    /\ calls[c].op \in {"createMeal", "createWorkout"}
    /\ \E read \in DbGetDailyProgress(calls[c].arg.userId, calls[c].arg.date) :
          DbResume(c, calls[c].op, "getDailyProgress",
                   [calls[c] EXCEPT !.read = read,
                                    !.pc = IF read.kind = "record" THEN "getByDate" ELSE "write"])
    /\ UNCHANGED <<dbVars, dbRet>>

\* `await this.getMealsByDate(..)` / `await this.getWorkoutsByDate(..)`
DbCreateGetByDate(c) ==
    /\ calls[c].op \in {"createMeal", "createWorkout"}
    /\ DbResume(c, calls[c].op, "getByDate",
                [calls[c] EXCEPT !.pc = "write", !.rows =
                    DbSelectByDate(IF calls[c].op = "createMeal" THEN dbMeals ELSE dbWorkouts,
                                   calls[c].arg.userId, calls[c].arg.date)])
    /\ UNCHANGED <<dbVars, dbRet>>

\* the update or insert of daily_progress, then `return newMeal`
DbCreateMealWrite(c) ==
    /\ DbResume(c, "createMeal", "write", [calls[c] EXCEPT !.pc = "returned"])
    /\ DbWriteProgressAfterMeal(calls[c].arg, calls[c].read, calls[c].rows)
    /\ dbRet' = RetRecord(calls[c].arg)
    /\ UNCHANGED <<dbMeals, dbWorkouts, dbMealSeq, dbWorkoutSeq>>

\* the update or insert of daily_progress, then `return newWorkout`
DbCreateWorkoutWrite(c) ==
    /\ DbResume(c, "createWorkout", "write", [calls[c] EXCEPT !.pc = "returned"])
    /\ DbWriteProgressAfterWorkout(calls[c].arg, calls[c].read, calls[c].rows)
    /\ dbRet' = RetRecord(calls[c].arg)
    /\ UNCHANGED <<dbMeals, dbWorkouts, dbMealSeq, dbWorkoutSeq>>

\* deleteMeal: `await this.getMeal(id)`, `return false` when there is none
DbStartDeleteMeal(id) ==
    /\ IF id \in DOMAIN dbMeals
       THEN /\ DbStart(Call("deleteMeal", "delete", dbMeals[id], RetUndefined, {}))
            /\ UNCHANGED dbRet
       ELSE /\ DbStart(Call("deleteMeal", "returned", [id |-> id], RetUndefined, {}))
            /\ dbRet' = RetBool(FALSE)
    /\ UNCHANGED dbVars

\* db.delete(meals).where(eq(meals.id, id))
DbDeleteMealDelete(c) ==
    /\ DbResume(c, "deleteMeal", "delete", [calls[c] EXCEPT !.pc = "getByDate"])
    /\ dbMeals' = MapDelete(dbMeals, calls[c].arg.id)
    /\ UNCHANGED <<dbWorkouts, dbProgress, dbMealSeq, dbWorkoutSeq, dbProgressSeq, dbRet>>

\* the select of the day's meals
DbDeleteMealGetByDate(c) ==
    /\ DbResume(c, "deleteMeal", "getByDate",
                [calls[c] EXCEPT !.pc = "getDailyProgress", !.rows =
                    DbSelectByDate(dbMeals, calls[c].arg.userId, calls[c].arg.date)])
    /\ UNCHANGED <<dbVars, dbRet>>

\* `await this.getDailyProgress(meal.userId, meal.date)`
DbDeleteMealGetDailyProgress(c) ==
    /\ calls[c].op = "deleteMeal"
    /\ calls[c].pc = "getDailyProgress"
    /\ \E read \in DbGetDailyProgress(calls[c].arg.userId, calls[c].arg.date) :
          DbResume(c, "deleteMeal", "getDailyProgress",
                   [calls[c] EXCEPT !.pc = "write", !.read = read])
    /\ UNCHANGED <<dbVars, dbRet>>

\* the update of daily_progress, then `return true`
DbDeleteMealWrite(c) ==
    /\ DbResume(c, "deleteMeal", "write", [calls[c] EXCEPT !.pc = "returned"])
    /\ DbWriteProgressAfterMealDeletion(calls[c].read, calls[c].rows)
    /\ dbRet' = RetBool(TRUE)
    /\ UNCHANGED <<dbMeals, dbWorkouts, dbMealSeq, dbWorkoutSeq, dbProgressSeq>>

NextDbConc ==
    \/ \E u \in Users, d \in Dates, p \in MealPayloads : DbStartCreateMeal(u, d, p)
    \/ \E u \in Users, d \in Dates, p \in WorkoutPayloads : DbStartCreateWorkout(u, d, p)
    \/ \E id \in 1..(dbMealSeq - 1) : DbStartDeleteMeal(id)
    \/ \E c \in DOMAIN calls : DbCreateGetDailyProgress(c)
    \/ \E c \in DOMAIN calls : DbCreateGetByDate(c)
    \/ \E c \in DOMAIN calls : DbCreateMealWrite(c)
    \/ \E c \in DOMAIN calls : DbCreateWorkoutWrite(c)
    \/ \E c \in DOMAIN calls : DbDeleteMealDelete(c)
    \/ \E c \in DOMAIN calls : DbDeleteMealGetByDate(c)
    \/ \E c \in DOMAIN calls : DbDeleteMealGetDailyProgress(c)
    \/ \E c \in DOMAIN calls : DbDeleteMealWrite(c)

SpecDbConc == Init /\ [][NextDbConc]_vars

-----------------------------------------------------------------------------
(* SpecDialog: the add-workout form, one step per user event and one per run *)
(* of the rowing effect                                                      *)

\* The type Select: field.onChange
SelectType ==
    \E type \in {"cardio", "rowing"} : UserEdit([dialog EXCEPT !.type = type])

\* The minutes input is bound to the whole field: the typed number replaces
\* the value.
EditMinutes ==
    \E minutes \in {1, 2, 30} :
        UserEdit([dialog EXCEPT
            !.durationMinutes = ComposeDuration(minutes, 0, 0),
            !.entered = [minutes |-> minutes, seconds |-> 0, milliseconds |-> 0]])

\* onChange of the seconds input
EditSeconds ==
    \E seconds \in {0, 30, 59} :
        LET minutes == DecomposeDuration(dialog.durationMinutes).minutes IN
        UserEdit([dialog EXCEPT
            !.durationMinutes = ComposeDuration(minutes, seconds, 0),
            !.entered = [minutes |-> minutes, seconds |-> seconds, milliseconds |-> 0]])

\* onChange of the milliseconds input
EditMilliseconds ==
    \E ms \in {0, 250, 750} :
        LET minutes == DecomposeDuration(dialog.durationMinutes).minutes
            seconds == DecomposeDuration(dialog.durationMinutes).seconds
        IN  UserEdit([dialog EXCEPT
                !.durationMinutes = ComposeDuration(minutes, seconds, ms),
                !.entered = [minutes |-> minutes, seconds |-> seconds, milliseconds |-> ms]])

\* The distance input, rendered for a rowing workout; 0 empties it
EditMeters ==
    /\ dialog.type = "rowing"
    /\ \E meters \in {0, 2000, 5000} :
          UserEdit([dialog EXCEPT
              !.rowingMeters = meters, !.dirtyMeters = TRUE,
              !.edited = "rowingMeters", !.typedMeters = meters])

\* The split input, rendered for a rowing workout
EditSplit ==
    /\ dialog.type = "rowing"
    /\ \E split \in { <<>>,
                      <<"2", ":", "0", "5", ".", "3">>,
                      <<"1", ":", "5", "9", ".", "8", "1">> } :
          UserEdit([dialog EXCEPT
              !.rowingSplit = split, !.dirtySplit = TRUE,
              !.edited = "rowingSplit", !.typedSplit = split])

\* RunEffect with an effect that is due again after every run, as it would be
\* with a dependency that is a new value on each render.
RunEffectAlwaysDue ==
    /\ dialog.effect
    /\ dialog' = [RowingEffect(dialog) EXCEPT !.effect = TRUE, !.runs = dialog.runs + 1]
    /\ UNCHANGED <<tz, memVars, dbVars, lsVars, handles, lastOp, retVars, opCount, calls, pace, queries, sw>>

\* One run of the effect; setValue re-renders, and the effect is due again
\* when it changed a watched value.
RunEffect ==
    /\ dialog.effect
    /\ LET form == RowingEffect(dialog) IN
       dialog' = [form EXCEPT
           !.effect = \/ form.rowingMeters # dialog.rowingMeters
                      \/ form.rowingSplit # dialog.rowingSplit,
           !.runs = dialog.runs + 1]
    /\ UNCHANGED <<tz, memVars, dbVars, lsVars, handles, lastOp, retVars, opCount, calls, pace, queries, sw>>

NextDialog ==
    \/ SelectType
    \/ EditMinutes
    \/ EditSeconds
    \/ EditMilliseconds
    \/ EditMeters
    \/ EditSplit
    \/ RunEffect

SpecDialog == Init /\ [][NextDialog]_vars

-----------------------------------------------------------------------------
(* SpecPace: the rowing pace functions applied to given arguments, the *)
(* degenerate ones included                                            *)

InitPace ==
    /\ tz \in TimeZones /\ InitStore /\ dialog = DialogDefault
    /\ queries = {} /\ sw = [state |-> "parsed", caches |-> {}, answered |-> [from |-> "none"]]
    /\ pace \in [ fn : {"arguments"},
                  distanceMeters : {-100, 0, 1000, 5000, 7000, 42195},
                  durationMinutes : {-60000, 0, 60000, 119995, 1530000},
                  splitTime : { <<>>,
                                <<"2", "0", "5">>,
                                <<"2", ":">>,
                                <<"a", ":", "b">>,
                                <<"2", ":", "0", "5", ".", "3">>,
                                <<"1", ":", "5", "9", ".", "8", "1">>,
                                <<"0", ":", "6", "0", ".", "0", "0">> } ]

\* A call of fn: the arguments it was given and what it returned.
PaceCall(fn, splitTime, result) ==
    /\ pace' = [ fn |-> fn, distanceMeters |-> pace.distanceMeters,
                 durationMinutes |-> pace.durationMinutes, splitTime |-> splitTime,
                 result |-> result ]
    /\ UNCHANGED <<tz, memVars, dbVars, lsVars, handles, lastOp, retVars, opCount, calls, dialog, queries, sw>>

CallSplitFromPace ==
    /\ pace.fn = "arguments"
    /\ PaceCall("calculateSplitFromPace", pace.splitTime,
           CalculateSplitFromPace(pace.distanceMeters, pace.durationMinutes))

CallDistanceFromPace ==
    /\ pace.fn = "arguments"
    /\ PaceCall("calculateDistanceFromPace", pace.splitTime,
           CalculateDistanceFromPace(pace.splitTime, pace.durationMinutes))

\* The split that calculateSplitFromPace returned, given back to
\* calculateDistanceFromPace with the same duration.
CallDistanceFromCalculatedSplit ==
    /\ pace.fn = "calculateSplitFromPace"
    /\ PaceCall("roundTrip", pace.result,
           CalculateDistanceFromPace(pace.result, pace.durationMinutes))

NextPace ==
    \/ CallSplitFromPace
    \/ CallDistanceFromPace
    \/ CallDistanceFromCalculatedSplit

SpecPace == InitPace /\ [][NextPace]_vars

-----------------------------------------------------------------------------
(* SpecDisplay: the pages' queries and the mutations' onSuccess handlers *)

\* Date.prototype.toISOString(): the day, 'T', the time of day, 'Z'
ToISOString(date) == NatToString(IsoDay(date)) \o <<"T">> \o NatToString(date % 2) \o <<"Z">>

\* The one-element query key `${path}?userId=${userId}&date=${date}`, kept as
\* the three texts the template joins.
QueryKey(path, userId, date) == [path |-> path, userId |-> NatToString(userId), date |-> date]

\* The keys a page passes to useQuery when it mounts at selectedDate; Home
\* (and the progress page) hard-code userId = 1.
PageQueries(page, selectedDate) ==
    LET iso == ToISOString(selectedDate)
        day == StringSplit(iso, "T")[1]
    IN  CASE page = "home" -> { QueryKey("/api/daily-progress", 1, iso),
                                QueryKey("/api/meals", 1, iso),
                                QueryKey("/api/workouts", 1, iso) }
          [] page = "food" -> { QueryKey("/api/meals", 1, day) }
          [] page = "workout" -> { QueryKey("/api/workouts", 1, day) }
          [] page = "progress" -> { QueryKey("/api/daily-progress", 1, day) }

\* useQuery under the client's defaults (staleTime: Infinity, no refetch on
\* an interval or on focus): a key not in the cache is fetched, a cached one is
\* shown as it is.
UseQuery(page, selectedDate) ==
    /\ queries' = queries \cup
           { [key |-> k, current |-> TRUE] :
               k \in { k \in PageQueries(page, selectedDate) :
                         \A q \in queries : q.key # k } }
    /\ UNCHANGED <<tz, memVars, dbVars, lsVars, handles, lastOp, retVars, opCount, calls,
                   dialog, pace, sw>>

\* The mutationFn's request succeeded: what the server answers for these paths
\* of the user and the day of `date` is no longer what the cache holds.
ServerWrote(cache, paths, userId, date) ==
    { IF /\ q.key.path \in paths
         /\ q.key.userId = NatToString(userId)
         /\ StringSplit(q.key.date, "T")[1] = StringSplit(ToISOString(date), "T")[1]
      THEN [q EXCEPT !.current = FALSE] ELSE q : q \in cache }

\* queryClient.invalidateQueries({ queryKey: [key] }): the queries whose key
\* starts with this one-element key, that is whose text equals it, are
\* refetched.
InvalidateQueries(cache, key) ==
    { IF q.key = key THEN [q EXCEPT !.current = TRUE] ELSE q : q \in cache }

\* addMealMutation.onSuccess of the dialog opened with (userId, date) by a
\* mounted page
AddMealSuccess(userId, date) ==
    LET day == StringSplit(ToISOString(date), "T")[1] IN
    /\ \E page \in {"home", "food"} : PageQueries(page, date) \subseteq {q.key : q \in queries}
    /\ queries' = InvalidateQueries(
                      InvalidateQueries(
                          ServerWrote(queries, {"/api/meals", "/api/daily-progress"}, userId, date),
                          QueryKey("/api/meals", userId, day)),
                      QueryKey("/api/daily-progress", userId, day))
    /\ UNCHANGED <<tz, memVars, dbVars, lsVars, handles, lastOp, retVars, opCount, calls,
                   dialog, pace, sw>>

\* addWorkoutMutation.onSuccess of the dialog opened with (userId, date)
AddWorkoutSuccess(userId, date) ==
    LET day == StringSplit(ToISOString(date), "T")[1] IN
    /\ \E page \in {"home", "workout"} : PageQueries(page, date) \subseteq {q.key : q \in queries}
    /\ queries' = InvalidateQueries(
                      InvalidateQueries(
                          ServerWrote(queries, {"/api/workouts", "/api/daily-progress"}, userId, date),
                          QueryKey("/api/workouts", userId, day)),
                      QueryKey("/api/daily-progress", userId, day))
    /\ UNCHANGED <<tz, memVars, dbVars, lsVars, handles, lastOp, retVars, opCount, calls,
                   dialog, pace, sw>>

\* deleteMutation.onSuccess of the card of a workout (workout.userId,
\* workout.date) on a mounted page
DeleteWorkoutSuccess(userId, date) ==
    LET day == StringSplit(ToISOString(date), "T")[1] IN
    /\ \E page \in {"home", "workout"}, shown \in Dates :
           /\ IsoDay(shown) = IsoDay(date)
           /\ PageQueries(page, shown) \subseteq {q.key : q \in queries}
    /\ queries' = InvalidateQueries(
                      InvalidateQueries(
                          ServerWrote(queries, {"/api/workouts", "/api/daily-progress"}, userId, date),
                          QueryKey("/api/workouts", userId, day)),
                      QueryKey("/api/daily-progress", userId, day))
    /\ UNCHANGED <<tz, memVars, dbVars, lsVars, handles, lastOp, retVars, opCount, calls,
                   dialog, pace, sw>>

NextDisplay ==
    \/ \E page \in {"home", "food", "workout", "progress"}, d \in Dates : UseQuery(page, d)
    \/ \E d \in Dates : AddMealSuccess(1, d)
    \/ \E d \in Dates : AddWorkoutSuccess(1, d)
    \/ \E d \in Dates : DeleteWorkoutSuccess(1, d)

SpecDisplay == Init /\ [][NextDisplay]_vars

-----------------------------------------------------------------------------
(* SpecWorker: the service worker's install, activate and fetch handlers *)

\* A URL is written one character per element, without its origin; the
\* worker's pages and the API are served from the same origin.
urlsToCache ==
    { <<>>,
      <<"i", "n", "d", "e", "x", ".", "h", "t", "m", "l">>,
      <<"m", "a", "n", "i", "f", "e", "s", "t", ".", "j", "s", "o", "n">>,
      <<"i", "c", "o", "n", "s", "/", "i", "c", "o", "n", "-", "1", "9", "2", ".", "p", "n", "g">>,
      <<"i", "c", "o", "n", "s", "/", "i", "c", "o", "n", "-", "5", "1", "2", ".", "p", "n", "g">> }

\* String.prototype.includes(searchString)
Includes(str, searchString) ==
    \E i \in 1..(Len(str) - Len(searchString) + 1) :
        SubSeq(str, i, i + Len(searchString) - 1) = searchString

\* The install handler of a worker registered with this scope (getBasePath),
\* in a CacheStorage that holds what earlier versions of the worker left:
\* cache.addAll stores every shell URL or, when one request fails, none, and
\* the installation fails with it.
Install(basePath, left, added) ==
    /\ sw.state = "parsed"
    /\ sw' = [ state |-> IF added THEN "installed" ELSE "redundant",
               caches |-> left \cup
                   { [cache |-> "foodtopia-v2", url |-> basePath \o url] :
                        url \in IF added THEN urlsToCache ELSE {} },
               answered |-> [from |-> "none"] ]
    /\ UNCHANGED <<tz, memVars, dbVars, lsVars, handles, lastOp, retVars, opCount, calls,
                   dialog, pace, queries>>

\* The activate handler: every cache but CACHE_NAME is deleted.
Activate ==
    /\ sw.state = "installed"
    /\ sw' = [sw EXCEPT !.state = "activated",
                        !.caches = {e \in sw.caches : e.cache = "foodtopia-v2"}]
    /\ UNCHANGED <<tz, memVars, dbVars, lsVars, handles, lastOp, retVars, opCount, calls,
                   dialog, pace, queries>>

\* The fetch handler without its test of the request's URL.
FetchCachingAll(url, method, response) ==
    /\ sw.state = "activated"
    /\ IF method = "GET" /\ \E e \in sw.caches : e.url = url
       THEN sw' = [sw EXCEPT !.answered = [url |-> url, method |-> method, from |-> "cache"]]
       ELSE IF response.status = 0
       THEN sw' = [sw EXCEPT !.answered = [url |-> url, method |-> method, from |-> "error"]]
       ELSE sw' = [sw EXCEPT
                !.answered = [url |-> url, method |-> method, from |-> "network",
                              status |-> response.status, type |-> response.type],
                !.caches = IF /\ response.status = 200 /\ response.type = "basic"
                              /\ method = "GET"
                           THEN sw.caches \cup {[cache |-> "foodtopia-v2", url |-> url]}
                           ELSE sw.caches]
    /\ UNCHANGED <<tz, memVars, dbVars, lsVars, handles, lastOp, retVars, opCount, calls,
                   dialog, pace, queries>>

\* The fetch handler, for a request the browser hands to the active worker:
\* caches.match answers a GET request from any cache; otherwise the network's
\* response is returned, and stored when it is a 200 of type basic for a URL
\* without '/api/' (cache.put takes GET requests only). status 0 stands for a
\* request that failed.
Fetch(url, method, response) ==
    /\ sw.state = "activated"
    /\ IF method = "GET" /\ \E e \in sw.caches : e.url = url
       THEN sw' = [sw EXCEPT !.answered = [url |-> url, method |-> method, from |-> "cache"]]
       ELSE IF response.status = 0
       THEN sw' = [sw EXCEPT !.answered = [url |-> url, method |-> method, from |-> "error"]]
       ELSE sw' = [sw EXCEPT
                !.answered = [url |-> url, method |-> method, from |-> "network",
                              status |-> response.status, type |-> response.type],
                !.caches = IF /\ response.status = 200 /\ response.type = "basic"
                              /\ method = "GET"
                              /\ ~Includes(url, <<"/", "a", "p", "i", "/">>)
                           THEN sw.caches \cup {[cache |-> "foodtopia-v2", url |-> url]}
                           ELSE sw.caches]
    /\ UNCHANGED <<tz, memVars, dbVars, lsVars, handles, lastOp, retVars, opCount, calls,
                   dialog, pace, queries>>

NextWorker ==
    \/ \E basePath \in { <<"/">>,
                         <<"/", "f", "o", "o", "d", "t", "o", "p", "i", "a", "/">> },
          left \in SUBSET { [cache |-> "foodtopia-v1", url |-> <<"/", "i", "n", "d", "e", "x", ".", "h", "t", "m", "l">>],
                           [cache |-> "foodtopia-v1", url |-> <<"/", "a", "p", "i", "/", "m", "e", "a", "l", "s", "?", "u", "s", "e", "r", "I", "d", "=", "1">>] },
          added \in BOOLEAN :
            Install(basePath, left, added)
    \/ Activate
    \/ \E url \in { <<"/">>,
                   <<"/", "i", "n", "d", "e", "x", ".", "h", "t", "m", "l">>,
                   <<"/", "a", "s", "s", "e", "t", "s", "/", "a", "p", "p", ".", "j", "s">>,
                   <<"/", "a", "p", "i", "/", "m", "e", "a", "l", "s", "?", "u", "s", "e", "r", "I", "d", "=", "1">>,
                   <<"/", "a", "p", "i">>,
                   <<"/", "f", "o", "o", "d", "t", "o", "p", "i", "a", "/">>,
                   <<"/", "f", "o", "o", "d", "t", "o", "p", "i", "a", "/", "i", "n", "d", "e", "x", ".", "h", "t", "m", "l">>,
                   <<"/", "f", "o", "o", "d", "t", "o", "p", "i", "a", "/", "a", "p", "i", "/", "m", "e", "a", "l", "s", "?", "u", "s", "e", "r", "I", "d", "=", "1">> },
          method \in {"GET", "POST"},
          response \in [status : {0, 200, 404}, type : {"basic", "opaque"}] :
            Fetch(url, method, response)

SpecWorker == Init /\ [][NextWorker]_vars

-----------------------------------------------------------------------------
(* Claims *)

\* A counter of what getDailyProgress returned; a day without a row counts 0.
Counter(read, f) == IF read.kind = "record" THEN Num(read.val, f) ELSE 0

MealSumsAgree(read, mealsOfDay) ==
    /\ Counter(read, "caloriesConsumed") = SumSet(mealsOfDay, "totalCalories")
    /\ Counter(read, "proteinConsumed") = SumSet(mealsOfDay, "totalProtein")
    /\ Counter(read, "caloriesConsumed") >= 0
    /\ Counter(read, "proteinConsumed") >= 0

MemMealSums ==
    \A u \in Users, d \in Dates :
        MealSumsAgree(MemGetDailyProgress(u, d), MemGetByDate(memMeals, u, d))

DbMealSums ==
    \A u \in Users, d \in Dates : \A read \in DbGetDailyProgress(u, d) :
        MealSumsAgree(read, DbSelectByDate(dbMeals, u, d))

LsMealSums ==
    \A u \in Users, d \in Dates :
        MealSumsAgree(LsGetDailyProgress(u, d), LsGetByDate(apiData.meals, u, d))

\* C1: after every createMeal / deleteMeal call of a sequence of such calls, on
\* every backend, the row of every (user, day) has caloriesConsumed and
\* proteinConsumed equal to the sums of totalCalories and totalProtein over the
\* meals stored for that (user, day), and neither is negative.
C1_MealSumInvariant ==
    opCount > 0 => MemMealSums /\ DbMealSums /\ LsMealSums

WorkoutSumsAgree(read, workoutsOfDay) ==
    /\ Counter(read, "workoutMinutes") = SumSet(workoutsOfDay, "durationMinutes")
    /\ Counter(read, "caloriesBurned") = SumSet(workoutsOfDay, "caloriesBurned")

MemWorkoutSums ==
    \A u \in Users, d \in Dates :
        WorkoutSumsAgree(MemGetDailyProgress(u, d), MemGetByDate(memWorkouts, u, d))

DbWorkoutSums ==
    \A u \in Users, d \in Dates : \A read \in DbGetDailyProgress(u, d) :
        WorkoutSumsAgree(read, DbSelectByDate(dbWorkouts, u, d))

LsWorkoutSums ==
    \A u \in Users, d \in Dates :
        WorkoutSumsAgree(LsGetDailyProgress(u, d), LsGetByDate(apiData.workouts, u, d))

\* C2: after every createWorkout / deleteWorkout call of a sequence of such
\* calls, on every backend, the row of every (user, day) has workoutMinutes and
\* caloriesBurned equal to the sums of durationMinutes and caloriesBurned over
\* the workouts stored for that (user, day).
C2_WorkoutSumInvariant ==
    opCount > 0 => MemWorkoutSums /\ DbWorkoutSums /\ LsWorkoutSums

\* details.rowingMeters of a rowing workout, 0 for any other workout
RowingMetersOf(w) ==
    IF w.type = "rowing" /\ "rowingMeters" \in DOMAIN w.details
    THEN w.details.rowingMeters ELSE 0

RECURSIVE SumRowingMeters(_)
SumRowingMeters(workoutsOfDay) ==
    IF workoutsOfDay = {} THEN 0
    ELSE LET w == CHOOSE y \in workoutsOfDay : TRUE
         IN  RowingMetersOf(w) + SumRowingMeters(workoutsOfDay \ {w})

RowingAgrees(read, workoutsOfDay) ==
    Counter(read, "rowingMeters") = SumRowingMeters(workoutsOfDay)

MemRowingSums ==
    \A u \in Users, d \in Dates :
        RowingAgrees(MemGetDailyProgress(u, d), MemGetByDate(memWorkouts, u, d))

DbRowingSums ==
    \A u \in Users, d \in Dates : \A read \in DbGetDailyProgress(u, d) :
        RowingAgrees(read, DbSelectByDate(dbWorkouts, u, d))

LsRowingSums ==
    \A u \in Users, d \in Dates :
        RowingAgrees(LsGetDailyProgress(u, d), LsGetByDate(apiData.workouts, u, d))

\* C3: after every createWorkout / deleteWorkout call, on every backend, the
\* row of every (user, day) has rowingMeters equal to the sum of
\* details.rowingMeters over the rowing workouts stored for that (user, day).
C3_RowingMetersSymmetry ==
    opCount > 0 => MemRowingSums /\ DbRowingSums /\ LsRowingSums


\* What the seed of MemStorage put in a counter of the row of (u, d).
MemSeedCounter(u, d, f) ==
    IF MemKey(u, d) \in DOMAIN MemSeedProgress THEN MemSeedProgress[MemKey(u, d)][f] ELSE 0

\* The meals of (u, d) that createMeal calls stored.
MemCreatedMeals(u, d) ==
    {m \in MemGetByDate(memMeals, u, d) : m.id \notin DOMAIN MemSeedMeals}

\* C4: when createMeal calls of MemStorage for the same (user, day) are in
\* flight at the same time, then once all of them have returned the row's
\* caloriesConsumed and proteinConsumed include the contribution of every one
\* of the meals: what the row held before plus each meal's totals.
C4_NoLostUpdate ==
    (calls # NoCalls /\ Returned) =>
        \A u \in Users, d \in Dates :
            /\ Counter(MemGetDailyProgress(u, d), "caloriesConsumed")
                   = MemSeedCounter(u, d, "caloriesConsumed")
                         + SumSet(MemCreatedMeals(u, d), "totalCalories")
            /\ Counter(MemGetDailyProgress(u, d), "proteinConsumed")
                   = MemSeedCounter(u, d, "proteinConsumed")
                         + SumSet(MemCreatedMeals(u, d), "totalProtein")

ConsumedFields ==
    {"caloriesConsumed", "proteinConsumed", "carbsConsumed", "fatConsumed", "sugarConsumed"}

OnlyMealCalls == \A c \in DOMAIN calls : calls[c].op \in {"createMeal", "deleteMeal"}

\* C5: in DatabaseStorage, for every interleaving of concurrent createMeal and
\* deleteMeal calls, once all calls have returned the consumed counters of the
\* row of every (user, day) equal the sums over the meals that remain stored
\* for that day.
C5_RecomputeUnderInterleaving ==
    (calls # NoCalls /\ Returned /\ OnlyMealCalls) =>
        \A u \in Users, d \in Dates : \A read \in DbGetDailyProgress(u, d) :
            \A f \in ConsumedFields :
                Counter(read, f) = DbMealTotals(DbSelectByDate(dbMeals, u, d))[f]

\* C6: DatabaseStorage holds at most one daily_progress row per (user, day) in
\* every reachable state, interleaved createMeal / createWorkout calls on a day
\* without a row included, and exactly one once the calls have returned and a
\* meal or workout is stored for that day.
C6_RowUniqueness ==
    \A u \in Users, d \in Dates :
        /\ Cardinality(DbSelectByDate(dbProgress, u, d)) <= 1
        /\ (/\ Returned
            /\ DbSelectByDate(dbMeals, u, d) \cup DbSelectByDate(dbWorkouts, u, d) # {})
               => Cardinality(DbSelectByDate(dbProgress, u, d)) = 1

\* The step is a call of the operation `name`.
IsCall(name) == opCount' = opCount + 1 /\ lastOp'.name = name

LsRecords(collection) == {collection[i] : i \in 1..Len(collection)}

\* What delete(id) owes on a map of MemStorage or a table of DatabaseStorage.
MapDeleteContract(stored, after, id, ret, nothingChanged) ==
    IF id \in DOMAIN stored
    THEN /\ ret = RetBool(TRUE)
         /\ after = [x \in DOMAIN stored \ {id} |-> stored[x]]
    ELSE /\ ret = RetBool(FALSE)
         /\ nothingChanged

\* What delete(id) owes on a collection of the client-local store.
LsDeleteContract(stored, after, id, ret, nothingChanged) ==
    IF id \in Ids(stored)
    THEN /\ ret = RetBool(TRUE)
         /\ Len(after) = Len(stored) - 1
         /\ LsRecords(after) = {r \in LsRecords(stored) : r.id # id}
    ELSE /\ ret = RetBool(FALSE)
         /\ nothingChanged

DeleteMealContract ==
    IsCall("deleteMeal") =>
        /\ MapDeleteContract(memMeals, memMeals', lastOp'.arg.mem, memRet', UNCHANGED memVars)
        /\ MapDeleteContract(dbMeals, dbMeals', lastOp'.arg.db, dbRet', UNCHANGED dbVars)
        /\ LsDeleteContract(apiData.meals, apiData'.meals, lastOp'.arg.ls, lsRet',
                            UNCHANGED lsVars)
        /\ UNCHANGED <<memWorkouts, dbWorkouts>>
        /\ apiData'.workouts = apiData.workouts

DeleteWorkoutContract ==
    IsCall("deleteWorkout") =>
        /\ MapDeleteContract(memWorkouts, memWorkouts', lastOp'.arg.mem, memRet',
                             UNCHANGED memVars)
        /\ MapDeleteContract(dbWorkouts, dbWorkouts', lastOp'.arg.db, dbRet',
                             UNCHANGED dbVars)
        /\ LsDeleteContract(apiData.workouts, apiData'.workouts, lastOp'.arg.ls, lsRet',
                            UNCHANGED lsVars)
        /\ UNCHANGED <<memMeals, dbMeals>>
        /\ apiData'.meals = apiData.meals

\* C7: on every backend, deleteMeal(id) and deleteWorkout(id) with an id that
\* is not stored return false and leave all meals, all workouts and every
\* DailyProgress row unchanged; with a stored id they remove exactly that
\* record and return true.
C7_DeleteMissingId == [][DeleteMealContract /\ DeleteWorkoutContract]_vars

\* A deleteWorkout of an id that no backend stores (any more) has returned
\* after a deleteWorkout that removed a workout.
C7_Witness ==
    /\ lastOp.name = "deleteWorkout"
    /\ opCount >= 2
    /\ memRet = RetBool(FALSE)
    /\ dbRet = RetBool(FALSE)
    /\ lsRet = RetBool(FALSE)
    /\ lastOp.arg.mem \notin DOMAIN memWorkouts
    /\ lastOp.arg.ls # 0

CounterFields == ConsumedFields \cup {"workoutMinutes", "caloriesBurned", "rowingMeters"}

\* a record in which every counter is present and 0
ZeroRow(ret) ==
    /\ ret.kind = "record"
    /\ \A f \in CounterFields : f \in DOMAIN ret.val /\ ret.val[f] = 0

\* C8: a read of the DailyProgress of a (user, day) that has no stored row
\* returns, whichever backend serves it, a record in which every counter
\* (rowingMeters included) is 0, never an absent value. The static query
\* function reads for user 1 whatever user is asked for.
C8_ZeroRowSynthesis ==
    lastOp.name = "GET /api/daily-progress" =>
        /\ MemGetDailyProgress(lastOp.arg.userId, lastOp.arg.date).kind = "undefined"
               => ZeroRow(memRet)
        /\ DbGetDailyProgress(lastOp.arg.userId, lastOp.arg.date) = {RetUndefined}
               => ZeroRow(dbRet)
        /\ LsGetDailyProgress(1, lastOp.arg.date).kind = "undefined"
               => ZeroRow(lsRet)

DerivingCalls == {"createMeal", "deleteMeal", "createWorkout", "deleteWorkout"}

\* C9: a DailyProgress row is created or changed only as a side effect of
\* createMeal, deleteMeal, createWorkout or deleteWorkout: no call sets its
\* counters directly.
C9_DerivedOnly ==
    [][(\/ memProgress' # memProgress
        \/ dbProgress' # dbProgress
        \/ apiData'.dailyProgress # apiData.dailyProgress)
           => lastOp'.name \in DerivingCalls]_vars

\* What a caller sees of getDailyProgress: whether there is a row, and its counters.
Observed(read) == [row |-> read.kind, counters |-> [f \in CounterFields |-> Counter(read, f)]]

\* A return value without the identifier the backend allocated.
UpToId(ret) ==
    IF ret.kind = "record"
    THEN RetRecord([k \in DOMAIN ret.val \ {"id"} |-> ret.val[k]])
    ELSE ret

\* The user the seed of MemStorage stores nothing for: every backend starts
\* empty for this user.
UnseededUsers == Users \ {MemSeedMeals[id].userId : id \in DOMAIN MemSeedMeals}

\* The last call was a create for such a user, or a delete of a record that a
\* create call of the sequence stored.
ReturnsCompared ==
    \/ lastOp.name \in {"createMeal", "createWorkout"} /\ lastOp.arg.userId \in UnseededUsers
    \/ lastOp.name \in {"deleteMeal", "deleteWorkout"} /\ lastOp.arg.db # 0

\* C10: the same sequence of createMeal, deleteMeal, createWorkout,
\* deleteWorkout and getDailyProgress calls, from an empty store, yields on
\* MemStorage, DatabaseStorage and the client-local store the same return
\* values up to identifier allocation and the same DailyProgress counters
\* after every step.
C10_BackendSubstitutability ==
    /\ \A u \in UnseededUsers, d \in Dates : \A read \in DbGetDailyProgress(u, d) :
           /\ Observed(MemGetDailyProgress(u, d)) = Observed(read)
           /\ Observed(LsGetDailyProgress(u, d)) = Observed(read)
    /\ ReturnsCompared =>
           /\ UpToId(memRet) = UpToId(dbRet)
           /\ UpToId(lsRet) = UpToId(dbRet)


\* The identifiers a backend handed out for one kind of entity, in call order;
\* the seed of MemStorage is part of its history, and 0 marks "no identifier".
IdsAscend(backend) ==
    \A i \in DOMAIN handles, j \in DOMAIN handles :
        (/\ i < j
         /\ handles[i].kind = handles[j].kind
         /\ handles[i][backend] # 0
         /\ handles[j][backend] # 0)
            => handles[i][backend] < handles[j][backend]

\* C11: on every backend and for each kind of entity, every identifier that
\* create assigns is strictly greater than every identifier assigned before
\* for that kind, the identifiers of records deleted since included: an
\* identifier is never reused.
C11_IdentifierAllocation ==
    IdsAscend("mem") /\ IdsAscend("db") /\ IdsAscend("ls")

\* C12: a duration put together from minutes m in 0..999, seconds s in 0..59
\* and milliseconds ms in 0..999 by the dialog's inputs reads back as exactly
\* (m, s, ms).
C12_DurationRoundTrip ==
    LET e == dialog.entered IN
    (e.minutes \in 0..999 /\ e.seconds \in 0..59 /\ e.milliseconds \in 0..999)
        => /\ dialog.durationMinutes = ComposeDuration(e.minutes, e.seconds, e.milliseconds)
           /\ DecomposeDuration(dialog.durationMinutes) = e

Abs(n) == IF n < 0 THEN -n ELSE n

\* C13: for a duration D > 0 and meters M > 0, the distance computed from the
\* split that was computed from M and D differs from M by at most 1.
C13_RowingRoundTrip ==
    (pace.fn = "roundTrip" /\ pace.distanceMeters > 0 /\ pace.durationMinutes > 0)
        => /\ pace.result # NaN
           /\ Abs(pace.result - pace.distanceMeters) <= 1

\* C14: a run of the rowing effect leaves the rowing field the user edited
\* last with the value the user entered; it recomputes only the other one.
C14_AuthorityTracking ==
    [][ (dialog.effect /\ dialog.type = "rowing") =>
            /\ dialog.edited = "rowingMeters" =>
                   dialog'.rowingMeters = dialog.typedMeters
            /\ dialog.edited = "rowingSplit" =>
                   dialog'.rowingSplit = dialog.typedSplit ]_vars

AllDigits(str) == str # <<>> /\ \A i \in 1..Len(str) : str[i] \in DOMAIN Digit

\* "M:SS.ff" with SS below 60
SplitFormat(str) ==
    LET parts == StringSplit(str, ":") IN
    /\ Len(parts) = 2
    /\ AllDigits(parts[1])
    /\ Len(parts[2]) = 5
    /\ AllDigits(SubSeq(parts[2], 1, 2))
    /\ parts[2][3] = "."
    /\ AllDigits(SubSeq(parts[2], 4, 5))
    /\ ParseFloat(SubSeq(parts[2], 1, 2)) < 60

\* C15: for D > 0 and M > 0 calculateSplitFromPace returns "M:SS.ff", the
\* split D * 60 / M * 500 seconds to two decimals, with two digits of whole
\* seconds and a seconds value below 60; D = 25.5, M = 5000 gives "2:33.00".
C15_SplitFormatting ==
    (pace.fn = "calculateSplitFromPace" /\ pace.distanceMeters > 0 /\ pace.durationMinutes > 0)
        => /\ SplitFormat(pace.result)
           /\ Abs(SplitToSeconds(pace.result) * pace.distanceMeters - 500 * pace.durationMinutes)
                  <= 5 * pace.distanceMeters
           /\ (pace.distanceMeters = 5000 /\ pace.durationMinutes = 1530000)
                  => pace.result = <<"2", ":", "3", "3", ".", "0", "0">>

\* Splits that do not parse to a positive number of seconds: empty, without a
\* colon, with a part that is not a number.
DegenerateSplits ==
    { <<>>, <<"2", "0", "5">>, <<"2", ":">>, <<"a", ":", "b">> }

\* C16: for a duration <= 0, meters <= 0 or a split that does not parse to a
\* positive number of seconds, calculateSplitFromPace returns the empty text
\* and calculateDistanceFromPace returns the number 0.
C16_DegenerateRowingInputs ==
    /\ (/\ pace.fn = "calculateSplitFromPace"
        /\ (pace.distanceMeters <= 0 \/ pace.durationMinutes <= 0))
           => pace.result = <<>>
    /\ (/\ pace.fn = "calculateDistanceFromPace"
        /\ (pace.durationMinutes <= 0 \/ pace.splitTime \in DegenerateSplits))
           => pace.result = 0

\* The call just made is createWorkout with a details.rowingMeters that is not
\* a number.
MalformedWorkoutCalled ==
    /\ opCount' = opCount + 1
    /\ lastOp'.name = "createWorkout"
    /\ Num(lastOp'.arg.details, "rowingMeters") = NaN
    /\ lastOp'.arg.type = "rowing"

\* C17: a createWorkout whose details.rowingMeters is not a number fails with
\* an error on every backend and leaves the DailyProgress rows as they were.
C17_MalformedNumbersFailLoudly ==
    [][ MalformedWorkoutCalled =>
            /\ memRet'.kind = "error" /\ memProgress' = memProgress
            /\ dbRet'.kind = "error" /\ dbProgress' = dbProgress
            /\ lsRet'.kind = "error" /\ apiData'.dailyProgress = apiData.dailyProgress ]_vars

\* totalCalories and totalProtein of a meal are the sums over its items.
TotalsAreItemSums(meal) ==
    /\ meal.totalCalories = SumSeq(meal.items, "calories")
    /\ meal.totalProtein = SumSeq(meal.items, "protein")

\* C18: every stored meal has totalCalories and totalProtein equal to the sums
\* of its items' calories and protein, whatever payload createMeal was given.
C18_MealTotals ==
    /\ \A id \in DOMAIN memMeals : TotalsAreItemSums(memMeals[id])
    /\ \A id \in DOMAIN dbMeals : TotalsAreItemSums(dbMeals[id])
    /\ \A meal \in LsRecords(apiData.meals) : TotalsAreItemSums(meal)

\* The records of user u whose timestamp, truncated to the calendar day, is the
\* calendar day of date.
InDayBucket(records, u, date) ==
    {r \in records : r.userId = u /\ IsoDay(r.date) = IsoDay(date)}

MapRecords(map) == {map[id] : id \in DOMAIN map}

\* C19: on every backend getMealsByDate(u, date) and getWorkoutsByDate(u, date)
\* return exactly the stored records of user u whose timestamp falls in the
\* calendar day of date.
C19_ListByDate ==
    \A u \in Users, date \in Dates :
        /\ MemGetByDate(memMeals, u, date) = InDayBucket(MapRecords(memMeals), u, date)
        /\ MemGetByDate(memWorkouts, u, date) = InDayBucket(MapRecords(memWorkouts), u, date)
        /\ DbSelectByDate(dbMeals, u, date) = InDayBucket(MapRecords(dbMeals), u, date)
        /\ DbSelectByDate(dbWorkouts, u, date) = InDayBucket(MapRecords(dbWorkouts), u, date)
        /\ LsGetByDate(apiData.meals, u, date) = InDayBucket(LsRecords(apiData.meals), u, date)
        /\ LsGetByDate(apiData.workouts, u, date)
               = InDayBucket(LsRecords(apiData.workouts), u, date)

\* The sum of field f over a meal's line items, an absent field counting as 0.
RECURSIVE ItemsTotal(_, _)
ItemsTotal(items, f) ==
    IF items = <<>> THEN 0
    ELSE (IF f \in DOMAIN Head(items) THEN Head(items)[f] ELSE 0) + ItemsTotal(Tail(items), f)

RECURSIVE MealsItemsTotal(_, _)
MealsItemsTotal(mealRows, f) ==
    IF mealRows = {} THEN 0
    ELSE LET meal == CHOOSE m \in mealRows : TRUE
         IN  ItemsTotal(meal.items, f) + MealsItemsTotal(mealRows \ {meal}, f)

RowingMetersKept(before, after) ==
    /\ \A k \in DOMAIN before :
          k \in DOMAIN after /\ Num(after[k], "rowingMeters") = Num(before[k], "rowingMeters")
    /\ \A k \in DOMAIN after \ DOMAIN before : OrZero(Num(after[k], "rowingMeters")) = 0

\* The call just made is createWorkout or deleteWorkout.
WorkoutWritten(name) == opCount' = opCount + 1 /\ lastOp'.name = name

\* C21: creating or deleting a workout whose type is not "rowing" changes the
\* rowingMeters of no DailyProgress row of any backend, whatever its details
\* carry.
C21_RowingGate ==
    [][ /\ (WorkoutWritten("createWorkout") /\ lastOp'.arg.type # "rowing") =>
              /\ RowingMetersKept(memProgress, memProgress')
              /\ RowingMetersKept(dbProgress, dbProgress')
              /\ RowingMetersKept(apiData.dailyProgress, apiData'.dailyProgress)
        /\ WorkoutWritten("deleteWorkout") =>
              /\ \A id \in DOMAIN memWorkouts :
                    (id = lastOp'.arg.mem /\ memWorkouts[id].type # "rowing")
                        => RowingMetersKept(memProgress, memProgress')
              /\ \A id \in DOMAIN dbWorkouts :
                    (id = lastOp'.arg.db /\ dbWorkouts[id].type # "rowing")
                        => RowingMetersKept(dbProgress, dbProgress')
              /\ \A w \in LsRecords(apiData.workouts) :
                    (w.id = lastOp'.arg.ls /\ w.type # "rowing")
                        => RowingMetersKept(apiData.dailyProgress, apiData'.dailyProgress) ]_vars

\* The caller's payload object after the call on a backend; a call that only
\* reads its payload leaves it as it was passed.
PayloadAfter(backend) ==
    IF "payload" \in DOMAIN lastOp THEN lastOp.payload[backend] ELSE lastOp.arg

DurationComponents(duration) ==
    [ minutes |-> duration \div 60000,
      seconds |-> (duration % 60000) \div 1000,
      milliseconds |-> duration % 1000 ]

\* A step leaves component c of the stored duration as it was.
ComponentKept(c) ==
    DurationComponents(dialog'.durationMinutes)[c] = DurationComponents(dialog.durationMinutes)[c]

\* C23: a change made through the minutes, the seconds or the milliseconds
\* input leaves the other two components of the stored duration unchanged.
C23_IndependentDurationComponents ==
    [][ /\ EditMinutes => (ComponentKept("seconds") /\ ComponentKept("milliseconds"))
        /\ EditSeconds => (ComponentKept("minutes") /\ ComponentKept("milliseconds"))
        /\ EditMilliseconds => (ComponentKept("minutes") /\ ComponentKept("seconds")) ]_vars

\* Counter f of the row of (u, date) in the client-local data, 0 without a row.
LsCounter(data, u, date, f) ==
    LET found == LsFindProgress(data.dailyProgress, u, date) IN
    IF found > 0 THEN OrZero(Num(data.dailyProgress[found], f)) ELSE 0

\* The call just made created record r: the collection holds it and counter f
\* of its day's row has grown by amount.
LsCreated(collection, r, f, amount) ==
    /\ r \in LsRecords(apiData'[collection])
    /\ LsCounter(apiData', r.userId, r.date, f) = LsCounter(apiData, r.userId, r.date, f) + amount

\* The call just made deleted record r: the collection holds it no more and
\* counter f of its day's row has gone down by amount, not below 0.
LsDeleted(collection, r, f, amount) ==
    /\ r \notin LsRecords(apiData'[collection])
    /\ LsCounter(apiData', r.userId, r.date, f)
           = MathMax0(LsCounter(apiData, r.userId, r.date, f) - amount)

\* C24: after each createMeal, deleteMeal, createWorkout and deleteWorkout of
\* the client-local store what is persisted (initialData while nothing is)
\* equals the API's data, and both hold the record change together with the update of the day's row.
C24_PersistenceAgreement ==
    [][ (opCount' = opCount + 1) =>
          /\ lastOp'.name \in {"createMeal", "deleteMeal", "createWorkout", "deleteWorkout"}
                 => (IF lsData'.stored THEN lsData'.data ELSE InitialData) = apiData'
          /\ lastOp'.name = "createMeal"
                 => LsCreated("meals", lsRet'.val, "caloriesConsumed", lsRet'.val.totalCalories)
          /\ lastOp'.name = "createWorkout"
                 => LsCreated("workouts", lsRet'.val, "workoutMinutes", lsRet'.val.durationMinutes)
          /\ lastOp'.name = "deleteMeal"
                 => \A r \in LsRecords(apiData.meals) :
                        r.id = lastOp'.arg.ls
                            => LsDeleted("meals", r, "caloriesConsumed", r.totalCalories)
          /\ lastOp'.name = "deleteWorkout"
                 => \A r \in LsRecords(apiData.workouts) :
                        r.id = lastOp'.arg.ls
                            => LsDeleted("workouts", r, "workoutMinutes", r.durationMinutes) ]_vars

\* C25: right after MemStorage is constructed the seeded row of the demo user
\* equals the sums over the seeded meals and workouts of that day.
C25_SeededStateConsistent ==
    lastOp.name = "new" =>
        /\ MemGetDailyProgress(1, Today).kind = "record"
        /\ MealSumsAgree(MemGetDailyProgress(1, Today), MemGetByDate(memMeals, 1, Today))
        /\ WorkoutSumsAgree(MemGetDailyProgress(1, Today), MemGetByDate(memWorkouts, 1, Today))

\* Every counter of the row is present and is a number that is not negative.
WellFormedCounters(row) ==
    \A f \in CounterFields : f \in DOMAIN row /\ row[f] # NaN /\ row[f] >= 0

\* C26: every counter, rowingMeters included, of every stored DailyProgress row
\* of every backend is a defined, finite, non-negative number in every
\* reachable state.
C26_WellFormedCounters ==
    /\ \A k \in DOMAIN memProgress : WellFormedCounters(memProgress[k])
    /\ \A id \in DOMAIN dbProgress : WellFormedCounters(dbProgress[id])
    /\ \A row \in LsRecords(apiData.dailyProgress) : WellFormedCounters(row)

\* C27: after a successful add-meal, add-workout or delete-workout mutation
\* and its onSuccess handler, every cached query that shows the user's meals,
\* workouts or daily progress of the affected day has been refetched: no
\* mounted page displays data older than the mutation.
C27_DisplayRefresh == \A q \in queries : q.current

\* The rows of `after` against those of `before` when a record of (u, date) was
\* written and only `fields` may change: the row of u and the calendar day of
\* date keeps its other counters, any other row is kept whole, and a new row is
\* of u and that day with its other counters 0.
FrameKept(before, after, u, date, fields) ==
    /\ \A k \in DOMAIN before :
          /\ k \in DOMAIN after
          /\ IF before[k].userId = u /\ IsoDay(before[k].date) = IsoDay(date)
             THEN \A f \in CounterFields \ fields : Num(after[k], f) = Num(before[k], f)
             ELSE after[k] = before[k]
    /\ \A k \in DOMAIN after \ DOMAIN before :
          /\ after[k].userId = u /\ IsoDay(after[k].date) = IsoDay(date)
          /\ \A f \in CounterFields \ fields : OrZero(Num(after[k], f)) = 0

\* FrameKept on the three backends for a record of (u, date) just created.
FrameOfCreate(u, date, fields) ==
    /\ FrameKept(memProgress, memProgress', u, date, fields)
    /\ FrameKept(dbProgress, dbProgress', u, date, fields)
    /\ FrameKept(apiData.dailyProgress, apiData'.dailyProgress, u, date, fields)

\* FrameKept on the three backends for the stored record a delete named; a
\* delete of an id that is not stored changes no row.
FrameOfDelete(mem, db, ls, fields) ==
    /\ IF lastOp'.arg.mem \in DOMAIN mem
       THEN FrameKept(memProgress, memProgress', mem[lastOp'.arg.mem].userId,
                      mem[lastOp'.arg.mem].date, fields)
       ELSE memProgress' = memProgress
    /\ IF lastOp'.arg.db \in DOMAIN db
       THEN FrameKept(dbProgress, dbProgress', db[lastOp'.arg.db].userId,
                      db[lastOp'.arg.db].date, fields)
       ELSE dbProgress' = dbProgress
    /\ IF \E r \in LsRecords(ls) : r.id = lastOp'.arg.ls
       THEN \A r \in LsRecords(ls) : r.id = lastOp'.arg.ls =>
                FrameKept(apiData.dailyProgress, apiData'.dailyProgress, r.userId, r.date,
                          fields)
       ELSE apiData'.dailyProgress = apiData.dailyProgress

\* C28: a meal create or delete changes only the consumed-nutrient counters
\* of the DailyProgress row of the meal's own (userId, day), and a workout
\* create or delete only workoutMinutes, caloriesBurned and rowingMeters of the
\* row of the workout's own (userId, day); the other counters of that row and
\* every row of another user or day are unchanged, on every backend.
C28_AggregateUpdateFrame ==
    [][ /\ IsCall("createMeal") =>
              FrameOfCreate(lastOp'.arg.userId, lastOp'.arg.date, ConsumedFields)
        /\ IsCall("createWorkout") =>
              FrameOfCreate(lastOp'.arg.userId, lastOp'.arg.date, CounterFields \ ConsumedFields)
        /\ IsCall("deleteMeal") =>
              FrameOfDelete(memMeals, dbMeals, apiData.meals, ConsumedFields)
        /\ IsCall("deleteWorkout") =>
              FrameOfDelete(memWorkouts, dbWorkouts, apiData.workouts,
                            CounterFields \ ConsumedFields) ]_vars

\* C29: whatever type, duration, rowingMeters and rowingSplit a user edit
\* leaves in the form, the rowing auto-calculation effect stops being due
\* after finitely many runs: it reaches values it no longer changes, and
\* meters and split do not update each other for ever. The effect runs at
\* most three times after an edit, and a third run changes nothing.
C29_AutoCalculationSettles ==
    /\ dialog.runs <= 3
    /\ dialog.runs = 3 => ~dialog.effect

\* The user typed a split into a rowing form without meters; the effect
\* computed the meters, then rewrote the split from them, and is no longer due.
C29_Witness ==
    /\ dialog.type = "rowing" /\ dialog.edited = "rowingSplit"
    /\ dialog.typedSplit # <<>> /\ dialog.typedMeters = 0
    /\ dialog.rowingMeters \notin {0, NaN}
    /\ dialog.rowingSplit # dialog.typedSplit
    /\ dialog.runs = 3 /\ ~dialog.effect

\* C30: after any sequence of install, activate and fetch events the
\* worker's cache holds no response for a request whose URL contains '/api/',
\* and no such request is answered from the cache.
C30_ApiNeverCached ==
    /\ \A e \in sw.caches : e.cache = "foodtopia-v2" => ~Includes(e.url, <<"/", "a", "p", "i", "/">>)
    /\ sw.answered.from = "cache" => ~Includes(sw.answered.url, <<"/", "a", "p", "i", "/">>)

\* A GET of an API URL was answered by the network with a 200 of type basic,
\* the response the handler stores for any other URL.
C30_Witness ==
    /\ sw.state = "activated"
    /\ sw.answered.from = "network" /\ sw.answered.method = "GET"
    /\ sw.answered.status = 200 /\ sw.answered.type = "basic"
    /\ Includes(sw.answered.url, <<"/", "a", "p", "i", "/">>)

=============================================================================
